---- MODULE Spec2Model ----
(***************************************************************************)
(* A model of the workflow promotion and backup engine of the n8n CI/CD    *)
(* repository: scripts/manage-workflows.js (class WorkflowManager, the     *)
(* current variant at lines 701-1785) and the parts of                     *)
(* scripts/deployment-manager.js that drive it.                            *)
(*                                                                         *)
(* Strings are sequences of one-character strings, so that suffix tests    *)
(* and the file-name normalisation are computed as the code computes them. *)
(* A JSON object is a record of the top-level keys it holds with the       *)
(* values of the two keys the engine reads (name, active).                 *)
(***************************************************************************)
EXTENDS Integers, Sequences, FiniteSets, TLC

\* ------------------------------------------------------------- bounds
\* Entities the remote collection holds when the run starts.
MaxRemote == 3
\* Backup directories under backups/ when the run starts.
MaxInitBackups == 5
\* Remote calls or file reads that fail during one run.
MaxFaults == 1
\* Largest keep-count passed to the cleanup-backups command.
MaxKeep == 2
\* Largest major, minor or patch number of a released version.
MaxVersionPart == 9
\* Deploy commands running at the same time against one remote service.
MaxRuns == 2

\* ------------------------------------------------------------ strings
SfxDev == <<"-", "d", "e", "v">>
SfxProd == <<"-", "p", "r", "o", "d">>
DotJson == <<".", "j", "s", "o", "n">>
Empty == <<>>

\* String.prototype.endsWith
EndsWith(s, t) ==
    /\ Len(s) >= Len(t)
    /\ SubSeq(s, Len(s) - Len(t) + 1, Len(s)) = t

\* String.prototype.startsWith
StartsWith(s, t) ==
    /\ Len(s) >= Len(t)
    /\ SubSeq(s, 1, Len(t)) = t

UpperCase == {"A", "B", "O", "S", "X", "Y"}
LowerCase == {"a", "b", "c", "o", "s", "x", "y", "d", "e", "v", "p", "r", "j", "n"}
Digits == {"0", "1"}
WhiteSpace == {" ", "\t"}

\* String.prototype.toLowerCase, one character
ToLower(c) ==
    CASE c = "A" -> "a"
      [] c = "B" -> "b"
      [] c = "O" -> "o"
      [] c = "S" -> "s"
      [] c = "X" -> "x"
      [] c = "Y" -> "y"
      [] OTHER -> c

\* A strip that lets the underscore through as well
RECURSIVE StripSpecialKeepsUnderscore(_)
StripSpecialKeepsUnderscore(s) ==
    IF s = <<>> THEN <<>>
    ELSE IF Head(s) \in UpperCase \cup LowerCase \cup Digits \cup WhiteSpace \cup {"-", "_"}
         THEN <<Head(s)>> \o StripSpecialKeepsUnderscore(Tail(s))
         ELSE StripSpecialKeepsUnderscore(Tail(s))

\* .replace(/[^a-zA-Z0-9\s-]/g, '')
RECURSIVE StripSpecial(_)
StripSpecial(s) ==
    IF s = <<>> THEN <<>>
    ELSE IF Head(s) \in UpperCase \cup LowerCase \cup Digits \cup WhiteSpace \cup {"-"}
         THEN <<Head(s)>> \o StripSpecial(Tail(s))
         ELSE StripSpecial(Tail(s))

\* .replace(/\s+/g, '_'): every maximal run of white space becomes one underscore
RECURSIVE CollapseSpace(_)
CollapseSpace(s) ==
    IF s = <<>> THEN <<>>
    ELSE IF Head(s) \in WhiteSpace
         THEN IF Len(s) > 1 /\ s[2] \in WhiteSpace
              THEN CollapseSpace(Tail(s))
              ELSE <<"_">> \o CollapseSpace(Tail(s))
         ELSE <<Head(s)>> \o CollapseSpace(Tail(s))

\* .toLowerCase()
LowerAll(s) == [i \in 1..Len(s) |-> ToLower(s[i])]

\* ---------------------------------------------------------- NameCodec
Environments == {"dev", "prod"}

getSuffix(environment) ==
    CASE environment = "dev" -> SfxDev
      [] environment = "prod" -> SfxProd
      [] OTHER -> Empty

\* A strip that goes on while an environment suffix is left
RECURSIVE getBaseNameStrippingAll(_)
getBaseNameStrippingAll(workflowName) ==
    IF EndsWith(workflowName, SfxDev)
    THEN getBaseNameStrippingAll(SubSeq(workflowName, 1, Len(workflowName) - 4))
    ELSE IF EndsWith(workflowName, SfxProd)
         THEN getBaseNameStrippingAll(SubSeq(workflowName, 1, Len(workflowName) - 5))
         ELSE workflowName

getBaseNameFromWorkflowName(workflowName) ==
    IF EndsWith(workflowName, SfxDev)
    THEN SubSeq(workflowName, 1, Len(workflowName) - 4)
    ELSE IF EndsWith(workflowName, SfxProd)
         THEN SubSeq(workflowName, 1, Len(workflowName) - 5)
         ELSE workflowName

getEnvironmentFromWorkflowName(workflowName) ==
    IF EndsWith(workflowName, SfxDev) THEN "dev"
    ELSE IF EndsWith(workflowName, SfxProd) THEN "prod"
    ELSE "dev"

generateFileName(workflowName) ==
    LowerAll(CollapseSpace(StripSpecial(getBaseNameFromWorkflowName(workflowName)))) \o DotJson

\* ------------------------------------------------------- JSON objects
\* Service-managed bookkeeping fields of a remote entity.
BookKeys == {"createdAt", "updatedAt", "versionId", "meta", "pinData", "triggerCount", "shared"}
\* Every top-level key the remote service returns for an entity.
FullKeys == BookKeys \cup {"id", "name", "active", "isArchived", "tags", "nodes", "connections"}

\* A parsed JSON object: the keys it holds, and the values of name and active.
Obj(keys, name, active) ==
    [keys |-> keys,
     name |-> IF "name" \in keys THEN name ELSE Empty,
     active |-> IF "active" \in keys THEN active ELSE FALSE]

\* { ...o, k1: undefined, ... } followed by JSON.stringify, which drops the keys
\* whose value is undefined.
Without(o, ks) == Obj(o.keys \ ks, o.name, o.active)

\* { ...o, name: n }
WithName(o, n) == Obj(o.keys \cup {"name"}, n, o.active)

\* A cleanWorkflow that sets nothing to undefined: the file keeps every key
CleanForExportKeepsAll(fullWorkflow) == fullWorkflow

\* exportSingleWorkflow's cleanWorkflow: the fields it sets to undefined
ExportStripped == {"id", "createdAt", "updatedAt", "versionId"}
CleanForExport(fullWorkflow) == Without(fullWorkflow, ExportStripped)

\* The fields deploySingleWorkflow sets to undefined in prodWorkflowData
DeployStripped == {"id", "active", "isArchived", "createdAt", "updatedAt", "versionId",
                   "meta", "pinData", "triggerCount", "shared", "tags"}
\* The fields importSingleWorkflow sets to undefined in cleanWorkflowData
ImportStripped == {"id", "active", "isArchived", "createdAt", "updatedAt", "versionId",
                   "meta", "pinData", "triggerCount", "shared", "tags"}
\* The fields restoreSingleWorkflow sets to undefined in cleanWorkflowData
RestoreStripped == {"id", "active", "isArchived", "createdAt", "updatedAt", "versionId",
                    "meta", "pinData", "triggerCount", "shared", "tags"}

\* ------------------------------------------------- configuration, names
BaseXy == <<"X", " ", "y">>
BaseXyLow == <<"x", " ", "y">>
BaseS == <<"S">>
\* config/managed-workflows.json: the managed base names, in file order.
managedWorkflows == <<BaseXy, BaseXyLow, BaseS>>

SeqToSet(s) == {s[i] : i \in 1..Len(s)}

getManagedWorkflowNames(environment) ==
    IF environment \in {"dev", "prod"}
    THEN [i \in 1..Len(managedWorkflows) |-> managedWorkflows[i] \o getSuffix(environment)]
    ELSE <<>>

\* this.config.settings of config/n8n-config.json
\* either without automatic backups and without a keep-count (the default of 10
\* applies), or with a backup before every deploy and a keep-count.
Configs ==
    {[backupBeforeDeploy |-> FALSE, backupBeforeImport |-> FALSE, maxBackupsToKeep |-> 0]}
    \cup [backupBeforeDeploy : {TRUE}, backupBeforeImport : BOOLEAN,
          maxBackupsToKeep : 1..MaxKeep]

\* ------------------------------------------------------ remote service
\* The entities the remote collection may hold when a run starts: a dev entity,
\* a legacy entity without suffix, and two prod entities whose base names
\* normalise to the same file name.
RemoteUniverse ==
    << [id |-> 1, name |-> BaseXy \o SfxDev, active |-> TRUE],
       [id |-> 2, name |-> BaseXy, active |-> FALSE],
       [id |-> 3, name |-> BaseXy \o SfxProd, active |-> TRUE],
       [id |-> 4, name |-> BaseXyLow \o SfxProd, active |-> FALSE] >>

\* The entities of RemoteUniverse with index in S, in index order.
RECURSIVE Pick(_, _)
Pick(S, i) ==
    IF i > Len(RemoteUniverse) THEN <<>>
    ELSE (IF i \in S THEN <<RemoteUniverse[i]>> ELSE <<>>) \o Pick(S, i + 1)

InitRemotes ==
    {Pick(S, 1) : S \in {T \in SUBSET (1..Len(RemoteUniverse)) : Cardinality(T) <= MaxRemote}}

\* GET /workflows/{id}: the full representation, every key present.
FullWorkflow(e) == Obj(FullKeys, e.name, e.active)

\* Array.prototype.find on a list of entities, by name: the first match, or none.
HasName(list, n) == \E i \in 1..Len(list) : list[i].name = n
FindByName(list, n) == list[CHOOSE i \in 1..Len(list) :
                              /\ list[i].name = n
                              /\ \A j \in 1..(i - 1) : list[j].name # n]
HasId(list, id) == \E i \in 1..Len(list) : list[i].id = id
FindById(list, id) == list[CHOOSE i \in 1..Len(list) : list[i].id = id]

\* PUT /workflows/{id}: the entity takes the payload's name; its active flag,
\* which the payload does not carry, stays as it is.
RemotePut(list, id, payload) ==
    [i \in 1..Len(list) |->
        IF list[i].id = id
        THEN [list[i] EXCEPT !.name = payload.name,
                             !.active = IF "active" \in payload.keys
                                        THEN payload.active ELSE @]
        ELSE list[i]]

\* POST /workflows: a new entity with a fresh id, inactive unless the payload says so.
RemotePost(list, id, payload) ==
    Append(list, [id |-> id, name |-> payload.name,
                  active |-> IF "active" \in payload.keys THEN payload.active ELSE FALSE])

\* ---------------------------------------------------------- file system
FileXy == generateFileName(BaseXy \o SfxDev)
FileS == generateFileName(BaseS \o SfxDev)
\* The name the earlier generateFileName, which kept the suffix, gave an export
FileXyProd == LowerAll(CollapseSpace(StripSpecial(BaseXy \o SfxProd))) \o DotJson

\* path.join(dir, f) written with content o
WriteFile(dir, f, o) == [g \in DOMAIN dir \cup {f} |-> IF g = f THEN o ELSE dir[g]]

\* The workflows/ directory when a run starts: empty, or holding two files saved
\* earlier (one still with every key of the remote representation), or holding
\* the exports of the dev and the prod entity of one base name, the prod one
\* under the name the earlier generateFileName gave it.
InitWorkflowDirs ==
    { <<>>,
      WriteFile(WriteFile(<<>>, FileXy, Obj(FullKeys, BaseXy \o SfxDev, TRUE)),
                FileS, Obj(FullKeys \ ExportStripped, BaseS \o SfxDev, FALSE)),
      WriteFile(WriteFile(<<>>, FileXy, CleanForExport(Obj(FullKeys, BaseXy \o SfxDev, TRUE))),
                FileXyProd, CleanForExport(Obj(FullKeys, BaseXy \o SfxProd, TRUE))) }

\* fs.readdirSync order of the file names the model uses
FileNames == <<FileS, FileXyProd, FileXy>>

\* f.endsWith('.json') && !f.startsWith('_')
IsWorkflowFile(f) == EndsWith(f, DotJson) /\ ~StartsWith(f, <<"_">>)

\* The workflow files of a directory, in readdir order
WorkflowFiles(files) ==
    SelectSeq(FileNames, LAMBDA f : f \in DOMAIN files /\ IsWorkflowFile(f))

\* ------------------------------------------------------------- backups
\* A backup directory name: a prefix and, for generated names, the time stamp.
NoName == [kind |-> "none", ts |-> 0]
Archive == [kind |-> "archive", ts |-> 0]
GeneratedName(environment, now) == [kind |-> "backup_" \o environment, ts |-> now]
PreDeployName(now) == [kind |-> "pre_deploy_auto", ts |-> now]
PreImportName(now) == [kind |-> "pre_import_auto", ts |-> now]

\* _backup_metadata.json
NoMeta == [present |-> FALSE, workflowCount |-> 0, failedCount |-> 0]
Meta(ok, failed) == [present |-> TRUE, workflowCount |-> ok, failedCount |-> failed]

\* workflows/backups/ when a run starts: a prod backup of two entities made at
\* time 1, a dev backup made at time 2 whose second file is a copy that holds
\* the name of the first, and a prod backup made at time 3 whose first file has
\* lost its name field.
InitWorkflowsBackups ==
    LET prodDir == [created |-> 1,
                    files |-> WriteFile(WriteFile(<<>>, FileXy,
                                  CleanForExport(Obj(FullKeys, BaseXy \o SfxProd, TRUE))),
                                  FileS, CleanForExport(Obj(FullKeys, BaseS \o SfxProd, FALSE))),
                    meta |-> Meta(2, 0)]
        devDir == [created |-> 2,
                   files |-> WriteFile(WriteFile(<<>>, FileXy,
                                 CleanForExport(Obj(FullKeys, BaseXy \o SfxDev, TRUE))),
                                 FileS, CleanForExport(Obj(FullKeys, BaseXy \o SfxDev, FALSE))),
                   meta |-> Meta(2, 0)]
        editedDir == [created |-> 3,
                      files |-> WriteFile(WriteFile(<<>>, FileS,
                                    Obj(FullKeys \ (ExportStripped \cup {"name"}), Empty, FALSE)),
                                    FileXy, CleanForExport(Obj(FullKeys, BaseXy \o SfxProd, TRUE))),
                      meta |-> Meta(2, 0)]
    IN [b \in {GeneratedName("prod", 1), GeneratedName("dev", 2), GeneratedName("prod", 3)} |->
            IF b = GeneratedName("prod", 1) THEN prodDir
            ELSE IF b = GeneratedName("dev", 2) THEN devDir ELSE editedDir]

\* The time of the newest directory under workflows/backups/: every directory
\* under backups/ is newer.
Epoch == Cardinality(DOMAIN InitWorkflowsBackups)

\* The i-th backup directory under backups/ when a run starts, made at time
\* Epoch + i; the oldest one carries a custom name.
InitBackup(i) ==
    [created |-> Epoch + i,
     files |-> WriteFile(<<>>, FileXy,
                         CleanForExport(Obj(FullKeys, BaseXy \o SfxProd, TRUE))),
     meta |-> Meta(1, 0)]
InitBackupName(i) ==
    IF i = 1 THEN Archive
    ELSE GeneratedName(IF i % 2 = 1 THEN "prod" ELSE "dev", Epoch + i)
InitBackups(n) ==
    [b \in {InitBackupName(i) : i \in 1..n} |->
        InitBackup(CHOOSE i \in 1..n : InitBackupName(i) = b)]

\* String.prototype.localeCompare on backup directory names: the prefixes in
\* alphabetical order, then the fixed-width time stamp.
KindRank(kind) ==
    CASE kind = "archive" -> 1
      [] kind = "backup_dev" -> 2
      [] kind = "backup_prod" -> 3
      [] kind = "pre_deploy_auto" -> 4
      [] kind = "pre_import_auto" -> 5
      [] OTHER -> 0
localeCompare(a, b) ==
    IF KindRank(a.kind) # KindRank(b.kind)
    THEN (IF KindRank(a.kind) < KindRank(b.kind) THEN -1 ELSE 1)
    ELSE IF a.ts # b.ts THEN (IF a.ts < b.ts THEN -1 ELSE 1) ELSE 0

\* .sort((a, b) => b.localeCompare(a)) of listBackups
RECURSIVE SortByNameDesc(_)
SortByNameDesc(S) ==
    IF S = {} THEN <<>>
    ELSE LET top == CHOOSE a \in S : \A b \in S : localeCompare(a, b) >= 0
         IN <<top>> \o SortByNameDesc(S \ {top})

\* A cleanup that orders the directories as listBackups does, by name
SortDirsByNameDesc(dirs, S) == SortByNameDesc(S)

\* .sort((a, b) => b.created - a.created) of cleanupOldBackups
RECURSIVE SortByCreatedDesc(_, _)
SortByCreatedDesc(dirs, S) ==
    IF S = {} THEN <<>>
    ELSE LET top == CHOOSE a \in S : \A b \in S : dirs[a].created >= dirs[b].created
         IN <<top>> \o SortByCreatedDesc(dirs, S \ {top})

\* Array.prototype.slice(k)
SliceFrom(s, k) == SubSeq(s, k + 1, Len(s))

\* cleanupOldBackups: the directories it removes
backupsToDelete(dirs, keepCount) ==
    LET backupDirs == SortByCreatedDesc(dirs, DOMAIN dirs)
    IN IF Len(backupDirs) <= keepCount THEN {}
       ELSE SeqToSet(SliceFrom(backupDirs, keepCount))

\* fs.rmSync(path, { recursive: true, force: true }) of each of them
RemoveDirs(dirs, gone) == [b \in DOMAIN dirs \ gone |-> dirs[b]]

DefaultKeepCount == 10
\* keepCount = this.config.settings.maxBackupsToKeep || 10
defaultKeepCount(settings) ==
    IF settings.maxBackupsToKeep # 0 THEN settings.maxBackupsToKeep ELSE DefaultKeepCount

\* --------------------------------------------------------------- state
VARIABLES
    remote,             \* the remote collection: entities in list order
    nextId,             \* the id the remote service assigns next
    config,             \* this.config.settings
    wfdir,              \* workflows/: file name -> parsed content
    backups,            \* backups/: directory name -> directory
    wbackups,           \* workflows/backups/: directory name -> directory
    clock,              \* the time, advanced by every createBackup
    pc,                 \* where the running command stands; "idle" between commands
    op,                 \* the running (or last) command and its arguments
    resolved,           \* the entities or files the batch loop iterates over
    results,            \* the batch's outcome records so far
    workflowsToBackup,  \* createBackup's own batch
    backupResults,      \* createBackup's outcome records so far
    currentWorkflows,   \* the remote list fetched at the start of import / restore
    calls,              \* create and update calls the command has sent
    remoteAtStart,      \* the remote collection when the command was dispatched
    retv,               \* what createBackup returned
    listing,            \* what listBackups returned
    outcome,            \* "running", "returned" or "threw" (process.exit(1))
    deleted,            \* directories cleanupOldBackups removed during the command
    prev,               \* the command that ran before this one
    faults,             \* remote calls and file reads that failed so far
    tool,               \* the stand-alone tool that ran, and where it stands
    input,              \* what the tool was given
    output,             \* what the tool returned or has collected so far
    runs                \* the deploy commands that run at the same time

world == <<remote, nextId, config, wfdir, backups, wbackups, clock>>
batch == <<resolved, results, currentWorkflows, calls, remoteAtStart>>
bkp == <<workflowsToBackup, backupResults, retv, deleted>>
ctl == <<pc, op, outcome, prev, faults, listing>>
tools == <<tool, input, output, runs>>
vars == <<world, batch, bkp, ctl, tools>>

NoOp ==
    [cmd |-> "none", env |-> "none", specific |-> <<>>, backupEnv |-> "none",
     customName |-> NoName, backupName |-> NoName, keepCount |-> 0,
     caller |-> "none", cleanupFrom |-> "none"]
NoRet ==
    [kind |-> "none", backupName |-> NoName, environment |-> "none",
     workflowCount |-> 0, failedCount |-> 0, workflows |-> <<>>]
NoPrev == [cmd |-> "none", outcome |-> "none", retv |-> NoRet]

Init ==
    /\ remote \in InitRemotes
    /\ nextId = Len(RemoteUniverse) + 1
    /\ config \in Configs
    /\ wfdir \in InitWorkflowDirs
    /\ \E n \in 0..MaxInitBackups : backups = InitBackups(n) /\ clock = Epoch + n
    /\ wbackups = InitWorkflowsBackups
    /\ pc = "idle"
    /\ op = NoOp
    /\ resolved = <<>> /\ results = <<>> /\ currentWorkflows = <<>> /\ calls = <<>>
    /\ remoteAtStart = remote
    /\ workflowsToBackup = <<>> /\ backupResults = <<>> /\ retv = NoRet
    /\ listing = <<>>
    /\ outcome = "none"
    /\ deleted = {}
    /\ prev = NoPrev
    /\ faults = 0
    /\ tool = "none" /\ input = <<>> /\ output = <<>>
    /\ runs = <<>>

\* ------------------------------------------------------ shared helpers
\* getAllWorkflows: GET /workflows, the list as the service holds it
getAllWorkflows == remote

\* getManagedWorkflows(environment)
getManagedWorkflows(allWorkflows, environment) ==
    SelectSeq(allWorkflows,
              LAMBDA w : w.name \in SeqToSet(getManagedWorkflowNames(environment)))

\* getSpecificWorkflows(workflowBaseNames, environment)
getSpecificWorkflows(allWorkflows, workflowBaseNames, environment) ==
    SelectSeq(allWorkflows,
              LAMBDA w : /\ getBaseNameFromWorkflowName(w.name) \in SeqToSet(workflowBaseNames)
                         /\ getEnvironmentFromWorkflowName(w.name) = environment)

\* One outcome record of a batch; a failed one carries error.message.
Result(key, status, action, id) ==
    [key |-> key, status |-> status, action |-> action, id |-> id, error |-> "none"]
Failed(key) == [Result(key, "failed", "none", 0) EXCEPT !.error = "error.message"]

Successes(rs) == Len(SelectSeq(rs, LAMBDA r : r.status = "success"))
Failures(rs) == Len(SelectSeq(rs, LAMBDA r : r.status = "failed"))

\* exportSingleWorkflow(workflow, exportDir): the directory's files afterwards
exportSingleWorkflow(files, workflow) ==
    WriteFile(files, generateFileName(workflow.name),
              CleanForExport(FullWorkflow(FindById(remote, workflow.id))))

\* cleanupOldBackups(keepCount): the backups/ directory afterwards
cleanupOldBackups(dirs, keepCount) == RemoveDirs(dirs, backupsToDelete(dirs, keepCount))

\* The directories a cleanup removes, with their creation times
Removed(dirs, keepCount) ==
    {[name |-> b, created |-> dirs[b].created] : b \in backupsToDelete(dirs, keepCount)}

\* handleCommand dispatching a command in a fresh process. A run of the model is
\* one command from any starting state; the one sequence of two commands it
\* follows is a restore of the backup that a backup command has just returned.
Dispatch(o, nextpc) ==
    /\ pc = "idle"
    /\ op' = o
    /\ pc' = nextpc
    /\ outcome' = "running"
    /\ prev' = [cmd |-> op.cmd, outcome |-> outcome, retv |-> retv]
    /\ resolved' = <<>> /\ results' = <<>> /\ currentWorkflows' = <<>> /\ calls' = <<>>
    /\ remoteAtStart' = remote
    /\ workflowsToBackup' = <<>> /\ backupResults' = <<>> /\ retv' = NoRet
    /\ deleted' = {}
    /\ listing' = <<>>
    /\ UNCHANGED <<world, faults, tools>>

First == op.cmd = "none"

\* The command ends: handleCommand returns, or catches and calls process.exit(1).
Finish(how) ==
    /\ pc' = "idle"
    /\ outcome' = how

\* The base-name arguments a command is given (none: every managed workflow).
SpecificArgs == {<<>>, <<BaseXy>>, <<BaseXy, BaseS>>}

\* A remote call or a file read of the step fails, within the fault budget.
Fault == faults < MaxFaults /\ faults' = faults + 1

\* ----------------------------------------------------------- export
\* handleCommand: export [environment] [workflow...]
CmdExport ==
    /\ First
    /\ \E environment \in Environments, specific \in SpecificArgs :
        Dispatch([NoOp EXCEPT !.cmd = "export", !.env = environment,
                              !.specific = specific], "export_resolve")

\* exportManagedWorkflows up to its loop: resolve the entities to export
ExportResolve ==
    /\ pc = "export_resolve"
    /\ \E ok \in BOOLEAN :
        IF ok
        THEN /\ resolved' = (IF op.specific # <<>>
                             THEN getSpecificWorkflows(getAllWorkflows, op.specific, op.env)
                             ELSE getManagedWorkflows(getAllWorkflows, op.env))
             /\ pc' = "export"
             /\ UNCHANGED <<outcome, faults>>
        ELSE /\ Fault
             /\ Finish("threw")
             /\ UNCHANGED resolved
    /\ UNCHANGED <<world, results, currentWorkflows, calls, remoteAtStart, bkp, op, prev, tools, listing>>

\* An export loop without the catch around its step: a failure ends the command
ExportStepNoCatch ==
    /\ pc = "export"
    /\ Len(results) < Len(resolved)
    /\ LET workflow == resolved[Len(results) + 1] IN
       \E ok \in BOOLEAN :
        IF ok
        THEN /\ wfdir' = exportSingleWorkflow(wfdir, workflow)
             /\ results' = Append(results, Result(workflow.name, "success", "exported", workflow.id))
             /\ UNCHANGED <<faults, pc, outcome>>
        ELSE /\ Fault
             /\ Finish("threw")
             /\ UNCHANGED <<wfdir, results>>
    /\ UNCHANGED <<remote, nextId, config, backups, wbackups, clock, resolved,
                   currentWorkflows, calls, remoteAtStart, bkp, op, prev, tools, listing>>

\* exportManagedWorkflows: one iteration of its loop
ExportStep ==
    /\ pc = "export"
    /\ Len(results) < Len(resolved)
    /\ LET workflow == resolved[Len(results) + 1] IN
       \E ok \in BOOLEAN :
        IF ok
        THEN /\ wfdir' = exportSingleWorkflow(wfdir, workflow)
             /\ results' = Append(results, Result(workflow.name, "success", "exported", workflow.id))
             /\ UNCHANGED faults
        ELSE /\ Fault
             /\ results' = Append(results, Failed(workflow.name))
             /\ UNCHANGED wfdir
    /\ UNCHANGED <<remote, nextId, config, backups, wbackups, clock, resolved,
                   currentWorkflows, calls, remoteAtStart, bkp, pc, op, outcome, prev, tools, listing>>

\* exportManagedWorkflows after its loop: the summary, and the return
ExportEnd ==
    /\ pc = "export"
    /\ Len(results) = Len(resolved)
    /\ Finish("returned")
    /\ UNCHANGED <<world, batch, bkp, op, prev, tools, faults, listing>>

\* ----------------------------------------------------------- backup
\* handleCommand: backup [environment] [custom-name]
CmdBackup ==
    /\ First
    /\ \E environment \in Environments, customName \in {NoName, Archive} :
        Dispatch([NoOp EXCEPT !.cmd = "backup", !.backupEnv = environment,
                              !.customName = customName, !.caller = "cli"],
                 "backup_start")

\* DeploymentManager.createBackup(environment, customName) up to its call of
\* manager.createBackup
CmdDmBackup ==
    /\ First
    /\ \E customName \in {NoName, Archive} :
        Dispatch([NoOp EXCEPT !.cmd = "dm_backup", !.backupEnv = "prod",
                              !.customName = IF customName = NoName
                                             THEN PreDeployName(clock + 1)
                                             ELSE customName,
                              !.caller = "dm"],
                 "backup_start")

\* A createBackup that returns null when no managed workflow is found
EmptyBackupReturnsNull(backupName, environment) ==
    [kind |-> "null", backupName |-> NoName, environment |-> "none",
     workflowCount |-> 0, failedCount |-> 0, workflows |-> <<>>]

\* What createBackup returns when no managed workflow is found
EmptyBackupReturn(backupName, environment) ==
    [kind |-> "manifest", backupName |-> backupName, environment |-> environment,
     workflowCount |-> 0, failedCount |-> 0, workflows |-> <<>>]

\* What createBackup returns after writing the manifest
BackupReturn(backupName, environment, rs) ==
    [kind |-> "manifest", backupName |-> backupName, environment |-> environment,
     workflowCount |-> Successes(rs), failedCount |-> Failures(rs), workflows |-> rs]

\* Where control goes when createBackup returns r to its caller: the backup
\* command ends; DeploymentManager.createBackup returns the name, or throws
\* when the result is null; deployDevToProd goes on to prune; importLocalWorkflows
\* goes on to read the export directory.
AfterBackup(r) ==
    /\ retv' = r
    /\ CASE op.caller = "deploy" -> pc' = "deploy_cleanup" /\ UNCHANGED outcome
         [] op.caller = "import" -> pc' = "import_resolve" /\ UNCHANGED outcome
         [] op.caller = "dm" -> Finish(IF r.kind = "null" THEN "threw" ELSE "returned")
         [] OTHER -> Finish("returned")

\* fs.mkdirSync(backupDir, { recursive: true }) at time now
MkDir(dirs, backupName, now) ==
    IF backupName \in DOMAIN dirs THEN dirs
    ELSE [b \in DOMAIN dirs \cup {backupName} |->
            IF b = backupName
            THEN [created |-> now, files |-> <<>>, meta |-> NoMeta]
            ELSE dirs[b]]

\* createBackup up to its loop: name the backup, make its directory, resolve the
\* managed workflows of the environment
BackupStart ==
    /\ pc = "backup_start"
    /\ LET backupName == IF op.customName # NoName THEN op.customName
                         ELSE GeneratedName(op.backupEnv, clock + 1)
       IN
       /\ clock' = clock + 1
       /\ backups' = MkDir(backups, backupName, clock + 1)
       /\ op' = [op EXCEPT !.backupName = backupName]
       /\ \E ok \in BOOLEAN :
            IF ok
            THEN LET found == getManagedWorkflows(getAllWorkflows, op.backupEnv) IN
                 /\ UNCHANGED faults
                 /\ IF Len(found) = 0
                    THEN /\ AfterBackup(EmptyBackupReturn(backupName, op.backupEnv))
                         /\ UNCHANGED workflowsToBackup
                    ELSE /\ workflowsToBackup' = found
                         /\ pc' = "backup"
                         /\ UNCHANGED <<retv, outcome>>
            ELSE /\ Fault
                 /\ Finish("threw")
                 /\ UNCHANGED <<workflowsToBackup, retv>>
    /\ UNCHANGED <<remote, nextId, config, wfdir, wbackups, batch, backupResults,
                   deleted, prev, tools, listing>>

\* createBackup: one iteration of its loop
BackupStep ==
    /\ pc = "backup"
    /\ Len(backupResults) < Len(workflowsToBackup)
    /\ LET workflow == workflowsToBackup[Len(backupResults) + 1] IN
       \E ok \in BOOLEAN :
        IF ok
        THEN /\ backups' = [backups EXCEPT ![op.backupName].files =
                                exportSingleWorkflow(@, workflow)]
             /\ backupResults' = Append(backupResults,
                    Result(workflow.name, "success", "exported", workflow.id))
             /\ UNCHANGED faults
        ELSE /\ Fault
             /\ backupResults' = Append(backupResults, Failed(workflow.name))
             /\ UNCHANGED backups
    /\ UNCHANGED <<remote, nextId, config, wfdir, wbackups, clock, batch,
                   workflowsToBackup, retv, deleted, pc, op, outcome, prev, tools, listing>>

\* createBackup after its loop: write _backup_metadata.json, then run
\* cleanupOldBackups() and return
BackupWrite ==
    /\ pc = "backup"
    /\ Len(backupResults) = Len(workflowsToBackup)
    /\ backups' = [backups EXCEPT ![op.backupName].meta =
                       Meta(Successes(backupResults), Failures(backupResults))]
    /\ pc' = "backup_cleanup"
    /\ UNCHANGED <<remote, nextId, config, wfdir, wbackups, clock, batch,
                   workflowsToBackup, backupResults, retv, deleted, op, outcome, prev, tools,
                   faults, listing>>

BackupCleanup ==
    /\ pc = "backup_cleanup"
    /\ backups' = cleanupOldBackups(backups, defaultKeepCount(config))
    /\ deleted' = deleted \cup Removed(backups, defaultKeepCount(config))
    /\ AfterBackup(BackupReturn(op.backupName, op.backupEnv, backupResults))
    /\ UNCHANGED <<remote, nextId, config, wfdir, wbackups, clock, batch,
                   workflowsToBackup, backupResults, op, prev, tools, faults, listing>>

\* ----------------------------------------------------------- cleanup
\* handleCommand: cleanup-backups [keep-count]
CmdCleanup ==
    /\ First
    /\ \E given \in BOOLEAN, k \in 0..MaxKeep :
        Dispatch([NoOp EXCEPT !.cmd = "cleanup",
                              !.keepCount = IF given THEN k
                                            ELSE defaultKeepCount(config)],
                 "cleanup")

\* cleanupOldBackups(keepCount) run by the cleanup-backups command
Cleanup ==
    /\ pc = "cleanup"
    /\ backups' = cleanupOldBackups(backups, op.keepCount)
    /\ deleted' = deleted \cup Removed(backups, op.keepCount)
    /\ Finish("returned")
    /\ UNCHANGED <<remote, nextId, config, wfdir, wbackups, clock, batch,
                   workflowsToBackup, backupResults, retv, op, prev, tools, faults, listing>>

\* ------------------------------------------------------- list-backups
\* handleCommand: list-backups
CmdListBackups ==
    /\ First
    /\ Dispatch([NoOp EXCEPT !.cmd = "list-backups"], "list")

\* listBackups()
ListBackups ==
    /\ pc = "list"
    /\ LET backupDirs == SortByNameDesc(DOMAIN wbackups) IN
       listing' = [i \in 1..Len(backupDirs) |->
                     [name |-> backupDirs[i],
                      created |-> wbackups[backupDirs[i]].created,
                      workflowCount |-> Len(WorkflowFiles(wbackups[backupDirs[i]].files))]]
    /\ Finish("returned")
    /\ UNCHANGED <<world, batch, bkp, op, prev, tools, faults>>

\* ----------------------------------------------------------- deploy
\* A create or update call sent to the remote service; ok tells whether the
\* service answered it.
Call(kind, id, payload, ok) == [kind |-> kind, id |-> id, payload |-> payload, ok |-> ok]

\* A deploy command that goes straight to resolving, whatever the settings say
CmdDeployWithoutBackup ==
    /\ First
    /\ \E workflowBaseNames \in SpecificArgs \ {<<>>} :
        Dispatch([NoOp EXCEPT !.cmd = "deploy", !.specific = workflowBaseNames,
                              !.backupEnv = "prod",
                              !.customName = PreDeployName(clock + 1),
                              !.caller = "deploy"],
                 "deploy_resolve")

\* handleCommand: deploy [workflow...], that is deployDevToProd up to its backup
CmdDeploy ==
    /\ First
    /\ \E workflowBaseNames \in SpecificArgs \ {<<>>} :
        Dispatch([NoOp EXCEPT !.cmd = "deploy", !.specific = workflowBaseNames,
                              !.backupEnv = "prod",
                              !.customName = PreDeployName(clock + 1),
                              !.caller = "deploy"],
                 IF config.backupBeforeDeploy THEN "backup_start" ELSE "deploy_resolve")

\* deployDevToProd: cleanupOldBackups() after the pre-deploy backup
DeployCleanup ==
    /\ pc = "deploy_cleanup"
    /\ backups' = cleanupOldBackups(backups, defaultKeepCount(config))
    /\ deleted' = deleted \cup Removed(backups, defaultKeepCount(config))
    /\ pc' = "deploy_resolve"
    /\ UNCHANGED <<remote, nextId, config, wfdir, wbackups, clock, batch,
                   workflowsToBackup, backupResults, retv, op, outcome, prev, tools, faults,
                   listing>>

\* deployDevToProd: resolve the dev workflows; none found returns []
DeployResolve ==
    /\ pc = "deploy_resolve"
    /\ \E ok \in BOOLEAN :
        IF ok
        THEN LET devWorkflows == getSpecificWorkflows(getAllWorkflows, op.specific, "dev") IN
             /\ resolved' = devWorkflows
             /\ IF Len(devWorkflows) = 0 THEN Finish("returned")
                ELSE pc' = "deploy" /\ UNCHANGED outcome
             /\ UNCHANGED faults
        ELSE /\ Fault
             /\ Finish("threw")
             /\ UNCHANGED resolved
    /\ UNCHANGED <<world, results, currentWorkflows, calls, remoteAtStart, bkp, op, prev, tools, listing>>

\* A prodWorkflowData that keeps the dev file's active flag
DeployPayloadKeepsActive(devWorkflowParsed, prodWorkflowName) ==
    Without(WithName(devWorkflowParsed, prodWorkflowName), DeployStripped \ {"active"})

\* deploySingleWorkflow's prodWorkflowData
DeployPayload(devWorkflowParsed, prodWorkflowName) ==
    Without(WithName(devWorkflowParsed, prodWorkflowName), DeployStripped)

\* A decision that never looks the target name up: always a create
ReconcileAlwaysCreates(list, targetName, payload, ok) == Call("create", 0, payload, ok)

\* The create-or-update decision against a remote list: the call to send
Reconcile(list, targetName, payload, ok) ==
    IF HasName(list, targetName)
    THEN Call("update", FindByName(list, targetName).id, payload, ok)
    ELSE Call("create", 0, payload, ok)

\* The remote collection after the service has answered call c
Applied(list, c, id) ==
    IF ~c.ok THEN list
    ELSE IF c.kind = "update"
         THEN (IF HasId(list, c.id) THEN RemotePut(list, c.id, c.payload) ELSE list)
         ELSE RemotePost(list, id, c.payload)

\* The outcome record of a call that was answered
Reconciled(key, c, id) ==
    Result(key, "success", IF c.kind = "update" THEN "updated" ELSE "created",
           IF c.kind = "update" THEN c.id ELSE id)

\* A deploy step that decides against the list as it was when the command started
DeployStepOnSnapshot ==
    /\ pc = "deploy"
    /\ Len(results) < Len(resolved)
    /\ LET devWorkflow == resolved[Len(results) + 1]
           baseName == getBaseNameFromWorkflowName(devWorkflow.name)
           prodWorkflowName == baseName \o getSuffix("prod")
           file == generateFileName(devWorkflow.name)
       IN
       \E fault \in {"none", "early", "send"} :
        /\ IF fault = "none" THEN UNCHANGED faults ELSE Fault
        /\ IF file \notin DOMAIN wfdir \/ fault = "early"
           THEN /\ results' = Append(results, Failed(baseName))
                /\ UNCHANGED <<remote, nextId, calls>>
           ELSE LET c == Reconcile(remoteAtStart, prodWorkflowName,
                                   DeployPayload(wfdir[file], prodWorkflowName),
                                   fault = "none")
                IN /\ calls' = Append(calls, c)
                   /\ remote' = Applied(remote, c, nextId)
                   /\ nextId' = IF c.ok /\ c.kind = "create" THEN nextId + 1 ELSE nextId
                   /\ results' = Append(results,
                          IF c.ok THEN Reconciled(baseName, c, nextId) ELSE Failed(baseName))
    /\ UNCHANGED <<config, wfdir, backups, wbackups, clock, resolved, currentWorkflows,
                   remoteAtStart, bkp, pc, op, outcome, prev, tools, listing>>

\* deployDevToProd: one iteration of its loop, deploySingleWorkflow(devWorkflow)
\* with the catch around it. The step fails when the exported file is missing,
\* when reading it or fetching the remote list fails ("early"), or when the
\* create or update call fails ("send").
DeployStep ==
    /\ pc = "deploy"
    /\ Len(results) < Len(resolved)
    /\ LET devWorkflow == resolved[Len(results) + 1]
           baseName == getBaseNameFromWorkflowName(devWorkflow.name)
           prodWorkflowName == baseName \o getSuffix("prod")
           file == generateFileName(devWorkflow.name)
       IN
       \E fault \in {"none", "early", "send"} :
        /\ IF fault = "none" THEN UNCHANGED faults ELSE Fault
        /\ IF file \notin DOMAIN wfdir \/ fault = "early"
           THEN /\ results' = Append(results, Failed(baseName))
                /\ UNCHANGED <<remote, nextId, calls>>
           ELSE LET c == Reconcile(getAllWorkflows, prodWorkflowName,
                                   DeployPayload(wfdir[file], prodWorkflowName),
                                   fault = "none")
                IN /\ calls' = Append(calls, c)
                   /\ remote' = Applied(remote, c, nextId)
                   /\ nextId' = IF c.ok /\ c.kind = "create" THEN nextId + 1 ELSE nextId
                   /\ results' = Append(results,
                          IF c.ok THEN Reconciled(baseName, c, nextId) ELSE Failed(baseName))
    /\ UNCHANGED <<config, wfdir, backups, wbackups, clock, resolved, currentWorkflows,
                   remoteAtStart, bkp, pc, op, outcome, prev, tools, listing>>

\* deployDevToProd after its loop
DeployEnd ==
    /\ pc = "deploy"
    /\ Len(results) = Len(resolved)
    /\ Finish("returned")
    /\ UNCHANGED <<world, batch, bkp, op, prev, tools, faults, listing>>

\* ----------------------------------------------------------- import
\* handleCommand: import [environment] [workflow...], that is importLocalWorkflows
\* up to its backup
CmdImport ==
    /\ First
    /\ \E environment \in Environments, specific \in SpecificArgs :
        Dispatch([NoOp EXCEPT !.cmd = "import", !.env = environment,
                              !.specific = specific, !.backupEnv = environment,
                              !.customName = PreImportName(clock + 1),
                              !.caller = "import"],
                 IF config.backupBeforeImport THEN "backup_start" ELSE "import_resolve")

\* The files a batch keeps when base names are given: those named as the base
\* name with the environment's suffix is named
SelectFiles(files, specific, environment) ==
    IF specific = <<>> THEN files
    ELSE SelectSeq(files, LAMBDA file :
            \E i \in 1..Len(specific) :
                file = generateFileName(specific[i] \o getSuffix(environment)))

\* importLocalWorkflows: list the export directory, narrow it to the base names
\* given, fetch the remote list once
ImportResolve ==
    /\ pc = "import_resolve"
    /\ LET workflowFiles == WorkflowFiles(wfdir)
           filesToImport == SelectFiles(workflowFiles, op.specific, op.env)
       IN
       IF Len(workflowFiles) = 0
       THEN Finish("threw") /\ UNCHANGED <<resolved, currentWorkflows, faults>>
       ELSE IF Len(filesToImport) = 0
       THEN Finish("returned") /\ UNCHANGED <<resolved, currentWorkflows, faults>>
       ELSE \E ok \in BOOLEAN :
            IF ok
            THEN /\ resolved' = filesToImport
                 /\ currentWorkflows' = getAllWorkflows
                 /\ pc' = "import"
                 /\ UNCHANGED <<outcome, faults>>
            ELSE /\ Fault
                 /\ Finish("threw")
                 /\ UNCHANGED <<resolved, currentWorkflows>>
    /\ UNCHANGED <<world, results, calls, remoteAtStart, bkp, op, prev, tools, listing>>

\* importSingleWorkflow's cleanWorkflowData
ImportPayload(workflowData, targetName) ==
    Without(WithName(workflowData, targetName), ImportStripped)

\* An import step that sends the file under the name it holds
ImportStepKeepingName ==
    /\ pc = "import"
    /\ Len(results) < Len(resolved)
    /\ LET workflowFile == resolved[Len(results) + 1]
           workflowData == wfdir[workflowFile]
       IN
       \E fault \in {"none", "early", "send"} :
        /\ IF fault = "none" THEN UNCHANGED faults ELSE Fault
        /\ IF "name" \notin workflowData.keys \/ fault = "early"
           THEN /\ results' = Append(results, Failed(workflowFile))
                /\ UNCHANGED <<remote, nextId, calls>>
           ELSE LET c == Reconcile(currentWorkflows, workflowData.name,
                                   ImportPayload(workflowData, workflowData.name),
                                   fault = "none")
                IN /\ calls' = Append(calls, c)
                   /\ remote' = Applied(remote, c, nextId)
                   /\ nextId' = IF c.ok /\ c.kind = "create" THEN nextId + 1 ELSE nextId
                   /\ results' = Append(results,
                          IF c.ok THEN Reconciled(workflowFile, c, nextId)
                          ELSE Failed(workflowFile))
    /\ UNCHANGED <<config, wfdir, backups, wbackups, clock, resolved, currentWorkflows,
                   remoteAtStart, bkp, pc, op, outcome, prev, tools, listing>>

\* An import step that fetches the remote list again before it decides
ImportStepRefetching ==
    /\ pc = "import"
    /\ Len(results) < Len(resolved)
    /\ LET workflowFile == resolved[Len(results) + 1]
           workflowData == wfdir[workflowFile]
           baseName == getBaseNameFromWorkflowName(workflowData.name)
           targetName == baseName \o getSuffix(op.env)
       IN
       \E fault \in {"none", "early", "send"} :
        /\ IF fault = "none" THEN UNCHANGED faults ELSE Fault
        /\ IF "name" \notin workflowData.keys \/ fault = "early"
           THEN /\ results' = Append(results, Failed(workflowFile))
                /\ UNCHANGED <<remote, nextId, calls>>
           ELSE LET c == Reconcile(getAllWorkflows, targetName,
                                   ImportPayload(workflowData, targetName),
                                   fault = "none")
                IN /\ calls' = Append(calls, c)
                   /\ remote' = Applied(remote, c, nextId)
                   /\ nextId' = IF c.ok /\ c.kind = "create" THEN nextId + 1 ELSE nextId
                   /\ results' = Append(results,
                          IF c.ok THEN Reconciled(workflowFile, c, nextId)
                          ELSE Failed(workflowFile))
    /\ UNCHANGED <<config, wfdir, backups, wbackups, clock, resolved, currentWorkflows,
                   remoteAtStart, bkp, pc, op, outcome, prev, tools, listing>>

\* importLocalWorkflows: one iteration of its loop, importSingleWorkflow with the
\* catch around it. A file without a name makes getBaseNameFromWorkflowName throw.
ImportStep ==
    /\ pc = "import"
    /\ Len(results) < Len(resolved)
    /\ LET workflowFile == resolved[Len(results) + 1]
           workflowData == wfdir[workflowFile]
           baseName == getBaseNameFromWorkflowName(workflowData.name)
           targetName == baseName \o getSuffix(op.env)
       IN
       \E fault \in {"none", "early", "send"} :
        /\ IF fault = "none" THEN UNCHANGED faults ELSE Fault
        /\ IF "name" \notin workflowData.keys \/ fault = "early"
           THEN /\ results' = Append(results, Failed(workflowFile))
                /\ UNCHANGED <<remote, nextId, calls>>
           ELSE LET c == Reconcile(currentWorkflows, targetName,
                                   ImportPayload(workflowData, targetName),
                                   fault = "none")
                IN /\ calls' = Append(calls, c)
                   /\ remote' = Applied(remote, c, nextId)
                   /\ nextId' = IF c.ok /\ c.kind = "create" THEN nextId + 1 ELSE nextId
                   /\ results' = Append(results,
                          IF c.ok THEN Reconciled(workflowFile, c, nextId)
                          ELSE Failed(workflowFile))
    /\ UNCHANGED <<config, wfdir, backups, wbackups, clock, resolved, currentWorkflows,
                   remoteAtStart, bkp, pc, op, outcome, prev, tools, listing>>

\* importLocalWorkflows after its loop: the summary, and the return
ImportEnd ==
    /\ pc = "import"
    /\ Len(results) = Len(resolved)
    /\ Finish("returned")
    /\ UNCHANGED <<world, batch, bkp, op, prev, tools, faults, listing>>

\* ---------------------------------------------------------- restore
\* handleCommand: restore [backup-name] [workflow...]: of any backup name in a
\* fresh run, or of the name a backup command has just returned
CmdRestore ==
    \/ /\ First
       /\ \E backupName \in DOMAIN wbackups \cup {Archive}, specific \in SpecificArgs :
            Dispatch([NoOp EXCEPT !.cmd = "restore", !.backupName = backupName,
                                  !.specific = specific], "restore_resolve")
    \/ /\ op.cmd = "backup"
       /\ prev.cmd = "none"
       /\ outcome = "returned"
       /\ Dispatch([NoOp EXCEPT !.cmd = "restore", !.backupName = retv.backupName],
                   "restore_resolve")

\* restoreFromBackup up to its loop
RestoreResolve ==
    /\ pc = "restore_resolve"
    /\ IF op.backupName \notin DOMAIN wbackups
       THEN Finish("threw") /\ UNCHANGED <<resolved, currentWorkflows, faults>>
       ELSE LET backupFiles == WorkflowFiles(wbackups[op.backupName].files)
                workflowsToRestore == SelectFiles(backupFiles, op.specific, "prod")
            IN
            IF Len(backupFiles) = 0
            THEN Finish("threw") /\ UNCHANGED <<resolved, currentWorkflows, faults>>
            ELSE IF Len(workflowsToRestore) = 0
            THEN Finish("returned") /\ UNCHANGED <<resolved, currentWorkflows, faults>>
            ELSE \E ok \in BOOLEAN :
                 IF ok
                 THEN /\ resolved' = workflowsToRestore
                      /\ currentWorkflows' = getAllWorkflows
                      /\ pc' = "restore"
                      /\ UNCHANGED <<outcome, faults>>
                 ELSE /\ Fault
                      /\ Finish("threw")
                      /\ UNCHANGED <<resolved, currentWorkflows>>
    /\ UNCHANGED <<world, results, calls, remoteAtStart, bkp, op, prev, tools, listing>>

\* restoreSingleWorkflow's cleanWorkflowData
RestorePayload(workflowData) == Without(workflowData, RestoreStripped)

\* A restore step that does not require the name field
RestoreStepNoNameCheck ==
    /\ pc = "restore"
    /\ Len(results) < Len(resolved)
    /\ LET backupFile == resolved[Len(results) + 1]
           workflowData == wbackups[op.backupName].files[backupFile]
       IN
       \E fault \in {"none", "early", "send"} :
        /\ IF fault = "none" THEN UNCHANGED faults ELSE Fault
        /\ IF fault = "early"
           THEN /\ results' = Append(results, Failed(backupFile))
                /\ UNCHANGED <<remote, nextId, calls>>
           ELSE LET c == Reconcile(currentWorkflows, workflowData.name,
                                   RestorePayload(workflowData), fault = "none")
                IN /\ calls' = Append(calls, c)
                   /\ remote' = Applied(remote, c, nextId)
                   /\ nextId' = IF c.ok /\ c.kind = "create" THEN nextId + 1 ELSE nextId
                   /\ results' = Append(results,
                          IF c.ok THEN Reconciled(backupFile, c, nextId)
                          ELSE Failed(backupFile))
    /\ UNCHANGED <<config, wfdir, backups, wbackups, clock, resolved, currentWorkflows,
                   remoteAtStart, bkp, pc, op, outcome, prev, tools, listing>>

\* restoreFromBackup: one iteration of its loop, restoreSingleWorkflow with the
\* catch around it
RestoreStep ==
    /\ pc = "restore"
    /\ Len(results) < Len(resolved)
    /\ LET backupFile == resolved[Len(results) + 1]
           workflowData == wbackups[op.backupName].files[backupFile]
       IN
       \E fault \in {"none", "early", "send"} :
        /\ IF fault = "none" THEN UNCHANGED faults ELSE Fault
        /\ IF workflowData.name = Empty \/ fault = "early"
           THEN /\ results' = Append(results, Failed(backupFile))
                /\ UNCHANGED <<remote, nextId, calls>>
           ELSE LET c == Reconcile(currentWorkflows, workflowData.name,
                                   RestorePayload(workflowData), fault = "none")
                IN /\ calls' = Append(calls, c)
                   /\ remote' = Applied(remote, c, nextId)
                   /\ nextId' = IF c.ok /\ c.kind = "create" THEN nextId + 1 ELSE nextId
                   /\ results' = Append(results,
                          IF c.ok THEN Reconciled(backupFile, c, nextId)
                          ELSE Failed(backupFile))
    /\ UNCHANGED <<config, wfdir, backups, wbackups, clock, resolved, currentWorkflows,
                   remoteAtStart, bkp, pc, op, outcome, prev, tools, listing>>

\* restoreFromBackup after its loop: the summary, and the return
RestoreEnd ==
    /\ pc = "restore"
    /\ Len(results) = Len(resolved)
    /\ Finish("returned")
    /\ UNCHANGED <<world, batch, bkp, op, prev, tools, faults, listing>>

Next ==
    \/ CmdExport \/ ExportResolve \/ ExportStep \/ ExportEnd
    \/ CmdBackup \/ CmdDmBackup \/ BackupStart \/ BackupStep \/ BackupWrite \/ BackupCleanup
    \/ CmdCleanup \/ Cleanup
    \/ CmdListBackups \/ ListBackups
    \/ CmdDeploy \/ DeployCleanup \/ DeployResolve \/ DeployStep \/ DeployEnd
    \/ CmdImport \/ ImportResolve \/ ImportStep \/ ImportEnd
    \/ CmdRestore \/ RestoreResolve \/ RestoreStep \/ RestoreEnd

Spec == Init /\ [][Next]_vars

\* ================================================= stand-alone tools
\* The tools that read what the engine wrote, and the pure helpers, run on
\* inputs of their own: the engine's state stays as Init left it.
Quiet ==
    /\ remote = <<>> /\ nextId = Len(RemoteUniverse) + 1
    /\ config = [backupBeforeDeploy |-> FALSE, backupBeforeImport |-> FALSE,
                 maxBackupsToKeep |-> 0]
    /\ wfdir = <<>> /\ backups = <<>> /\ wbackups = <<>> /\ clock = 0
    /\ pc = "idle" /\ op = NoOp
    /\ resolved = <<>> /\ results = <<>> /\ currentWorkflows = <<>> /\ calls = <<>>
    /\ remoteAtStart = <<>>
    /\ workflowsToBackup = <<>> /\ backupResults = <<>> /\ retv = NoRet
    /\ listing = <<>> /\ outcome = "none" /\ deleted = {} /\ prev = NoPrev
    /\ faults = 0

InitTools == Quiet /\ tool = "none" /\ input = <<>> /\ output = <<>> /\ runs = <<>>

\* A tool starts in a fresh process, ends, and leaves the engine alone.
Ran(name, given, returned) ==
    /\ tool = "none"
    /\ tool' = name
    /\ input' = given
    /\ output' = returned
    /\ UNCHANGED <<world, batch, bkp, ctl, runs>>

\* ----------------------------------------------------- BackupVerifier
\* A node of a workflow file, as far as the tools read it.
Node(name, type) == [name |-> name, type |-> type]
GoodNode == Node("Start", "n8n-nodes-base.start")
SetNode == Node("Set", "n8n-nodes-base.set")

\* A parsed workflow file of a backup: valid JSON or not; the fields the tools
\* read, with "" for a missing name, hasNodes telling whether the nodes array is
\* there, and connections "object", "string" or "absent".
WorkflowFile(valid, name, hasNodes, nodes, connections) ==
    [valid |-> valid, name |-> name, hasNodes |-> hasNodes, nodes |-> nodes,
     connections |-> connections]
GoodFile(name) == WorkflowFile(TRUE, name, TRUE, <<GoodNode>>, "object")

\* The contents of _backup_metadata.json: missing, not JSON, or its fields
MetaFile(state, backupName, environment, createdAt, workflowCount) ==
    [state |-> state, backupName |-> backupName, environment |-> environment,
     createdAt |-> createdAt, workflowCount |-> workflowCount]

\* A backup directory as verifyBackup finds it
BackupDir(exists, meta, files, ageInHours, size) ==
    [exists |-> exists, meta |-> meta, files |-> files,
     ageInHours |-> ageInHours, size |-> size]

\* One error or warning: the file it is about (0: the backup) and its text
Msg(about, text) == [about |-> about, text |-> text]
NoFindings == [errors |-> <<>>, warnings |-> <<>>]
Both(a, b) == [errors |-> a.errors \o b.errors, warnings |-> a.warnings \o b.warnings]
Errs(cond, about, text) == IF cond THEN <<Msg(about, text)>> ELSE <<>>

\* verifyMetadata(backupPath, backupName)
verifyMetadata(dir, backupName) ==
    IF dir.meta.state = "missing"
    THEN [errors |-> <<Msg(0, "Backup metadata file missing")>>, warnings |-> <<>>]
    ELSE IF dir.meta.state = "invalid"
    THEN [errors |-> <<Msg(0, "Invalid metadata JSON")>>, warnings |-> <<>>]
    ELSE [errors |-> Errs(dir.meta.backupName = "", 0, "Missing metadata field: backupName")
                     \o Errs(dir.meta.environment = "", 0, "Missing metadata field: environment")
                     \o Errs(dir.meta.createdAt = "", 0, "Missing metadata field: createdAt")
                     \o Errs(dir.meta.workflowCount = 0, 0, "Missing metadata field: workflowCount"),
          warnings |-> Errs(dir.meta.backupName # backupName, 0, "Backup name mismatch")]

\* The nodes of a file that lack name or type
RECURSIVE BadNodes(_, _, _)
BadNodes(file, nodes, i) ==
    IF i > Len(nodes) THEN <<>>
    ELSE Errs(nodes[i].name = "" \/ nodes[i].type = "", file, "Node missing name or type")
         \o BadNodes(file, nodes, i + 1)

\* String.prototype.includes('-') on the names the tools are given
HasDash(name) == name \in {"A-prod", "B-prod", "A-dev"}

\* verifyWorkflowFile(filePath, fileName), file being the position in the directory
verifyWorkflowFile(f, file) ==
    IF ~f.valid
    THEN [errors |-> <<Msg(file, "Invalid JSON")>>, warnings |-> <<>>]
    ELSE [errors |-> Errs(f.name = "", file, "Missing required field: name")
                     \o Errs(~f.hasNodes, file, "Missing required field: nodes")
                     \o Errs(f.connections = "absent", file, "Missing required field: connections")
                     \o (IF f.hasNodes THEN BadNodes(file, f.nodes, 1) ELSE <<>>)
                     \o Errs(f.connections = "string", file, "Invalid connections structure"),
          warnings |-> Errs(f.name # "" /\ ~HasDash(f.name), file,
                            "Workflow name may not follow suffix convention")
                       \o Errs(f.hasNodes /\ Len(f.nodes) = 0, file, "Workflow has no nodes")]

\* verifyWorkflowFiles(backupPath, backupName)
RECURSIVE verifyEachFile(_, _)
verifyEachFile(files, i) ==
    IF i > Len(files) THEN NoFindings
    ELSE Both(verifyWorkflowFile(files[i], i), verifyEachFile(files, i + 1))
verifyWorkflowFiles(dir) ==
    IF Len(dir.files) = 0
    THEN [errors |-> <<Msg(0, "No workflow files found in backup")>>, warnings |-> <<>>]
    ELSE verifyEachFile(dir.files, 1)

\* The names of the files that parse and carry a name, in directory order
NamesOf(files) ==
    LET named == SelectSeq(files, LAMBDA f : f.valid /\ f.name # "")
    IN [i \in 1..Len(named) |-> named[i].name]

\* The positions of a list of names whose name occurred earlier in the list
Duplicates(names) ==
    SelectSeq([i \in 1..Len(names) |-> i],
              LAMBDA i : \E j \in 1..(i - 1) : names[j] = names[i])

WeekInHours == 168
SmallBackupBytes == 1000

\* verifyBackupIntegrity(backupPath, backupName)
verifyBackupIntegrity(dir) ==
    LET dups == Duplicates(NamesOf(dir.files))
    IN [errors |-> [i \in 1..Len(dups) |-> Msg(0, "Duplicate workflow name found")],
        warnings |-> Errs(dir.ageInHours > WeekInHours, 0, "Backup is days old")
                     \o Errs(dir.size < SmallBackupBytes, 0, "Backup size seems unusually small")
                     \o Errs(/\ dir.meta.state = "fields"
                             /\ dir.meta.workflowCount # Len(dir.files),
                             0, "Metadata workflow count doesn't match actual files")]

\* A verdict that lets warnings fail the verification
PassedWithoutFindings(errors, warnings) == Len(errors) = 0 /\ Len(warnings) = 0

\* return this.errors.length === 0
Passed(errors, warnings) == Len(errors) = 0

\* verifyBackup(backupName) on a verifier that holds the findings `before`: the
\* findings afterwards, and what it returns
verifyBackup(before, dir, backupName) ==
    LET after == IF ~dir.exists
                 THEN Both(before, [errors |-> <<Msg(0, "Backup directory not found")>>,
                                    warnings |-> <<>>])
                 ELSE Both(Both(Both(before, verifyMetadata(dir, backupName)),
                                verifyWorkflowFiles(dir)),
                           verifyBackupIntegrity(dir))
    IN [errors |-> after.errors, warnings |-> after.warnings,
        passed |-> IF ~dir.exists THEN FALSE ELSE Passed(after.errors, after.warnings)]

\* The backups the verifier is run on: every combination of a manifest, a set
\* of files, an age and a size.
VerifyName == "backup_prod_1"
VerifyMetas ==
    { MetaFile("missing", "", "", "", 0),
      MetaFile("invalid", "", "", "", 0),
      MetaFile("fields", VerifyName, "prod", "2026", 1),
      MetaFile("fields", VerifyName, "prod", "2026", 2),
      MetaFile("fields", "other", "prod", "2026", 1),
      MetaFile("fields", VerifyName, "prod", "2026", 0),
      MetaFile("fields", VerifyName, "", "", 1) }
VerifyFiles ==
    { <<>>,
      <<GoodFile("A-prod")>>,
      <<GoodFile("A-prod"), GoodFile("B-prod")>>,
      <<GoodFile("A-prod"), GoodFile("A-prod")>>,
      <<GoodFile("A")>>,
      <<WorkflowFile(TRUE, "", TRUE, <<GoodNode>>, "object")>>,
      <<WorkflowFile(TRUE, "A-prod", FALSE, <<>>, "absent")>>,
      <<WorkflowFile(TRUE, "A-prod", TRUE, <<>>, "object")>>,
      <<WorkflowFile(TRUE, "A-prod", TRUE, <<GoodNode, Node("Set", "")>>, "string")>>,
      <<WorkflowFile(FALSE, "", FALSE, <<>>, "absent"), GoodFile("B-prod")>> }
VerifyAges == {1, WeekInHours, 240}
VerifySizes == {500, 5000}
VerifyDirs ==
    {BackupDir(FALSE, MetaFile("missing", "", "", "", 0), <<>>, 0, 0)}
    \cup {BackupDir(TRUE, m, fs, a, z) :
             m \in VerifyMetas, fs \in VerifyFiles, a \in VerifyAges, z \in VerifySizes}

\* verify-backup.js <backup-name>: a fresh verifier, one call of verifyBackup
VerifyOne ==
    /\ tool = "none"
    /\ \E dir \in VerifyDirs :
        Ran("verify", <<dir>>, <<verifyBackup(NoFindings, dir, VerifyName)>>)

\* verify-backup.js --all over two backups: verifyAllBackups resets the findings
\* before each backup; the first iteration
VerifyAllFirst ==
    /\ tool = "none"
    /\ \E m1 \in VerifyMetas, f1 \in VerifyFiles, m2 \in VerifyMetas, f2 \in VerifyFiles :
        LET d1 == BackupDir(TRUE, m1, f1, 1, 5000)
            d2 == BackupDir(TRUE, m2, f2, 240, 5000)
        IN /\ Len(f1) = 1 /\ Len(f2) >= 1
           /\ m1.workflowCount <= 1
           /\ Ran("verify_all", <<d1, d2>>, <<verifyBackup(NoFindings, d1, VerifyName)>>)

\* verifyAllBackups: the second iteration
VerifyAllNext ==
    /\ tool = "verify_all"
    /\ Len(output) < Len(input)
    /\ output' = Append(output, verifyBackup(NoFindings, input[Len(output) + 1], VerifyName))
    /\ UNCHANGED <<world, batch, bkp, ctl, tool, input, runs>>

\* ---------------------------------------------------- BackupComparator
\* A parsed entity file of a backup, as far as compareWorkflowFile reads it:
\* tags and connections are the sets of tag names and of connection sources.
Entity(valid, name, active, hasNodes, nodes, tags, connections) ==
    [valid |-> valid, name |-> name, active |-> active, hasNodes |-> hasNodes,
     nodes |-> nodes, tags |-> tags, connections |-> connections]

\* One recorded difference; from and to are kept for the node counts only
Difference(type, file, from, to) == [type |-> type, file |-> file, from |-> from, to |-> to]
Diff(cond, type, file, from, to) ==
    IF cond THEN <<Difference(type, file, from, to)>> ELSE <<>>

\* getWorkflowFiles(backupPath): the directory's file names, sorted; a file
\* name is its rank in that order
RECURSIVE Sorted(_)
Sorted(S) ==
    IF S = {} THEN <<>>
    ELSE LET least == CHOOSE a \in S : \A b \in S : a <= b
         IN <<least>> \o Sorted(S \ {least})
getWorkflowFiles(dir) == Sorted(DOMAIN dir)

\* compareFileLists(files1, files2, ...): the differences it records
compareFileLists(files1, files2) ==
    Diff(\E i \in 1..Len(files1) : files1[i] \notin SeqToSet(files2), "file_missing", 0, 0, 0)
    \o Diff(\E i \in 1..Len(files2) : files2[i] \notin SeqToSet(files1), "file_extra", 0, 0, 0)

\* workflow.nodes.map(n => n.type).sort(), compared through JSON.stringify:
\* equal exactly when every type occurs as often in one list as in the other
TypeCount(nodes, t) == Len(SelectSeq(nodes, LAMBDA n : n.type = t))
SameTypes(nodes1, nodes2) ==
    \A t \in {nodes1[i].type : i \in 1..Len(nodes1)} \cup {nodes2[i].type : i \in 1..Len(nodes2)} :
        TypeCount(nodes1, t) = TypeCount(nodes2, t)

\* workflow.nodes ? workflow.nodes.length : 0
NodeCount(workflow) == IF workflow.hasNodes THEN Len(workflow.nodes) ELSE 0

\* A comparison of two entity files that leaves the node counts out
compareWorkflowFileTypesOnly(workflow1, workflow2, fileName) ==
    IF ~workflow1.valid \/ ~workflow2.valid
    THEN <<Difference("comparison_error", fileName, 0, 0)>>
    ELSE Diff(workflow1.name # workflow2.name, "workflow_name_changed", fileName, 0, 0)
         \o Diff(workflow1.active # workflow2.active, "workflow_status_changed", fileName, 0, 0)
         \o Diff(/\ workflow1.hasNodes /\ workflow2.hasNodes
                 /\ ~SameTypes(workflow1.nodes, workflow2.nodes),
                 "node_types_changed", fileName, 0, 0)
         \o Diff(workflow1.tags # workflow2.tags, "tags_changed", fileName, 0, 0)
         \o Diff(workflow1.connections # workflow2.connections, "connections_changed",
                 fileName, 0, 0)

\* compareWorkflowFile(file1Path, file2Path, fileName): the differences it records
compareWorkflowFile(workflow1, workflow2, fileName) ==
    IF ~workflow1.valid \/ ~workflow2.valid
    THEN <<Difference("comparison_error", fileName, 0, 0)>>
    ELSE Diff(workflow1.name # workflow2.name, "workflow_name_changed", fileName, 0, 0)
         \o Diff(workflow1.active # workflow2.active, "workflow_status_changed", fileName, 0, 0)
         \o Diff(NodeCount(workflow1) # NodeCount(workflow2), "node_count_changed", fileName,
                 NodeCount(workflow1), NodeCount(workflow2))
         \o Diff(/\ workflow1.hasNodes /\ workflow2.hasNodes
                 /\ ~SameTypes(workflow1.nodes, workflow2.nodes),
                 "node_types_changed", fileName, 0, 0)
         \o Diff(workflow1.tags # workflow2.tags, "tags_changed", fileName, 0, 0)
         \o Diff(workflow1.connections # workflow2.connections, "connections_changed",
                 fileName, 0, 0)

\* compareWorkflowContents(...): every common file, in the order of files1
RECURSIVE compareWorkflowContents(_, _, _)
compareWorkflowContents(dir1, dir2, files) ==
    IF files = <<>> THEN <<>>
    ELSE (IF Head(files) \in DOMAIN dir2
          THEN compareWorkflowFile(dir1[Head(files)], dir2[Head(files)], Head(files))
          ELSE <<>>)
         \o compareWorkflowContents(dir1, dir2, Tail(files))

\* compareBackups(backup1Name, backup2Name) on a fresh comparator: the
\* differences it holds afterwards and what it returns
compareBackups(dir1, dir2) ==
    LET files1 == getWorkflowFiles(dir1)
        files2 == getWorkflowFiles(dir2)
        differences == compareFileLists(files1, files2)
                       \o compareWorkflowContents(dir1, dir2, files1)
    IN [differences |-> differences, identical |-> Len(differences) = 0]

\* The entity files the comparator is run on
BaseEntity == Entity(TRUE, "A-prod", FALSE, TRUE, <<GoodNode>>, {}, {"Start"})
CompareEntities ==
    { BaseEntity,
      [BaseEntity EXCEPT !.nodes = <<GoodNode, SetNode>>],
      [BaseEntity EXCEPT !.nodes = <<GoodNode, GoodNode>>],
      [BaseEntity EXCEPT !.nodes = <<SetNode>>],
      [BaseEntity EXCEPT !.hasNodes = FALSE, !.nodes = <<>>],
      [BaseEntity EXCEPT !.name = "B-prod"],
      [BaseEntity EXCEPT !.active = TRUE],
      [BaseEntity EXCEPT !.tags = {"live"}],
      [BaseEntity EXCEPT !.connections = {"Start", "Set"}],
      [BaseEntity EXCEPT !.valid = FALSE] }
\* A backup directory: file name -> entity file
CompareDirs ==
    {<<>>} \cup {[f \in {1} |-> e] : e \in CompareEntities}
           \cup {[f \in {1, 2} |-> IF f = 1 THEN e ELSE BaseEntity] : e \in CompareEntities}

\* compare-backups.js <backup1> <backup2>
Compare ==
    /\ tool = "none"
    /\ \E dir1 \in CompareDirs, dir2 \in CompareDirs :
        Ran("compare", <<dir1, dir2>>, <<compareBackups(dir1, dir2)>>)

\* ----------------------------------------------------------- NameCodec
OrderSync == <<"O", "r", "d", "e", "r", " ", "S", "y", "n", "c">>
OrderUnderscoreSync == <<"o", "r", "d", "e", "r", "_", "s", "y", "n", "c">>
\* The display names generateFileName is applied to
DisplayNames ==
    { OrderSync, OrderUnderscoreSync,
      <<"o", "r", "d", "e", "r", " ", "s", "y", "n", "c">>,
      <<"O", "r", "d", "e", "r", " ", " ", "S", "y", "n", "c">>,
      <<"O", "r", "d", "e", "r", "\t", "S", "y", "n", "c">>,
      <<"O", "r", "d", "e", "r", " ", "S", "y", "n", "c", "-", "d", "e", "v">>,
      <<"O", "r", "d", "e", "r", " ", "S", "y", "n", "c", "-", "p", "r", "o", "d">>,
      <<"o", "r", "d", "e", "r", "-", "s", "y", "n", "c">>,
      <<"O", "r", "d", "e", "r", ".", "S", "y", "n", "c">>,
      <<"o", "r", "d", "e", "r", "s", "y", "n", "c">>,
      <<"X", " ", "y">>,
      <<"x", " ", "y">>,
      <<"S">>,
      <<" ">>,
      <<"a", "-", "d", "e", "v">>,
      <<"a", "-", "p", "r", "o", "d">>,
      <<"a", "-", "d", "e", "v", "-", "d", "e", "v">>,
      <<"-", "d", "e", "v">>,
      <<"-", "p", "r", "o", "d">>,
      <<>> }

\* The base names the suffix is appended to and stripped from
BaseNames ==
    { OrderSync, OrderUnderscoreSync,
      <<"X", " ", "y">>,
      <<"S">>,
      <<"a", "-", "d", "e", "v">>,
      <<"a", "-", "p", "r", "o", "d">>,
      <<"a", "-", "d", "e", "v", "-", "p", "r", "o", "d">>,
      <<"-", "d", "e", "v">>,
      <<"-", "p", "r", "o", "d">>,
      <<>>,
      <<"d", "e", "v">>,
      <<"a", "-">>,
      <<"a", "-", "d", "e", "v", "x">> }

\* generateFileName(workflowName), called once
GenerateFileName ==
    /\ tool = "none"
    /\ \E workflowName \in DisplayNames :
        Ran("generateFileName", <<workflowName>>, <<generateFileName(workflowName)>>)

\* generateFileName called again with the same display name
GenerateFileNameAgain ==
    /\ tool = "generateFileName"
    /\ Len(output) < 2
    /\ output' = Append(output, generateFileName(input[1]))
    /\ UNCHANGED <<world, batch, bkp, ctl, tool, input, runs>>

\* baseName + getSuffix(environment), then getBaseNameFromWorkflowName of it
SuffixRoundTrip ==
    /\ tool = "none"
    /\ \E baseName \in BaseNames, environment \in Environments :
        Ran("getBaseNameFromWorkflowName",
            [baseName |-> baseName, environment |-> environment],
            <<baseName \o getSuffix(environment),
              getBaseNameFromWorkflowName(baseName \o getSuffix(environment))>>)

\* The environments a command line can name: the two the engine knows and two
\* it does not
RequestedEnvironments == Environments \cup {"staging", "qa"}

\* getSuffix asked for an environment, and the target name importSingleWorkflow
\* builds with it for an entity file's name; the call has no raise in it
GetSuffix ==
    /\ tool = "none"
    /\ \E environment \in RequestedEnvironments, workflowName \in DisplayNames :
          Ran("getSuffix",
              [environment |-> environment, workflowName |-> workflowName],
              <<[raised |-> FALSE, suffix |-> getSuffix(environment)],
                getBaseNameFromWorkflowName(workflowName) \o getSuffix(environment)>>)

\* ---------------------------------------------------- VariableInjector
\* A node of workflowData.nodes as injectEnvironmentVariables reads and writes
\* it: "" stands for a missing name or type; parameters may be missing; jsCode
\* and content are the two parameters the injector sets.
WNode(name, type, hasParameters, jsCode, content, color) ==
    [name |-> name, type |-> type, hasParameters |-> hasParameters,
     jsCode |-> jsCode, content |-> content, color |-> color]

CodeType == "n8n-nodes-base.code"
StickyType == "n8n-nodes-base.stickyNote"

\* workflowData: the node list (or none) and the connections (or none), as the
\* set of its keys and the set of links from a key's main[0] to a node.
WorkflowData(hasNodes, nodes, hasConnections, keys, links) ==
    [hasNodes |-> hasNodes, nodes |-> nodes, hasConnections |-> hasConnections,
     keys |-> keys, links |-> links]

\* `return ${JSON.stringify(envVariables, null, 2)};` for the variables of an
\* environment, with the version added in prod when one is given
JsCode(variables, environment, version) ==
    "return {" \o variables
    \o (IF version # "" /\ environment = "prod" THEN ",version:" \o version ELSE "")
    \o "};"

\* node.type.includes('Trigger'), node.name.includes('Trigger') || ...('When')
IsTriggerType(type) == type \in {"n8n-nodes-base.manualTrigger"}
IsTriggerName(name) == name \in {"When clicked", "Trigger"}

\* The first position of a sequence that satisfies a test, or 0
FirstWhere(seq, Test(_)) ==
    IF \E i \in 1..Len(seq) : Test(seq[i])
    THEN CHOOSE i \in 1..Len(seq) : Test(seq[i]) /\ \A j \in 1..(i - 1) : ~Test(seq[j])
    ELSE 0

\* workflowData.nodes.find(node => node.type.includes('Trigger') || ...): the
\* position found (0: none), or -1 when a node before it lacks the type, or
\* lacks the name after its type did not match, and the test raises
RECURSIVE FindTrigger(_, _)
FindTrigger(nodes, i) ==
    IF i > Len(nodes) THEN 0
    ELSE IF nodes[i].type = "" THEN -1
    ELSE IF IsTriggerType(nodes[i].type) THEN i
    ELSE IF nodes[i].name = "" THEN -1
    ELSE IF IsTriggerName(nodes[i].name) THEN i
    ELSE FindTrigger(nodes, i + 1)

IsConfigNode(node) == node.name = "Configuration" \/ node.name = "Variables"
NewConfigNode == WNode("Configuration", CodeType, TRUE, "return {};", "", 0)

\* The outcome of a call: workflowData as the call left it, and whether it raised
Left(workflowData, raised) == [workflowData |-> workflowData, raised |-> raised]

\* The entry of managed-workflows.json found for a base name (or none), its
\* variables (or none) and the variables of each environment ("": none)
WorkflowConfig(hasEntry, hasVariables, dev, prod) ==
    [hasEntry |-> hasEntry, hasVariables |-> hasVariables,
     variables |-> [dev |-> dev, prod |-> prod]]

\* The text of the version note; it carries the date of the call
NoteContent(version, environment, currentDate) ==
    "Version:" \o version \o " Environment:" \o environment
    \o " Deployed:" \o currentDate

\* content.includes('Version'), over the contents the model uses
HasVersionText(content) == content \notin {"", "todo"}

IsVersionNote(node) ==
    /\ node.type = StickyType
    /\ (node.name = "Version Info"
        \/ (node.hasParameters /\ HasVersionText(node.content)))

addOrUpdateVersionStickyNote(workflowData, version, environment, currentDate) ==
    LET at == FirstWhere(workflowData.nodes, IsVersionNote)
        noteContent == NoteContent(version, environment, currentDate)
    IN  IF at > 0
        THEN IF ~workflowData.nodes[at].hasParameters
             THEN Left(workflowData, TRUE)
             ELSE Left([workflowData EXCEPT
                          !.nodes[at].content = noteContent,
                          !.nodes[at].color = IF environment = "prod" THEN 4 ELSE @],
                       FALSE)
        ELSE Left([workflowData EXCEPT !.nodes = Append(@,
                      WNode("Version Info", StickyType, TRUE, "", noteContent,
                            IF environment = "prod" THEN 4 ELSE 5))],
                  FALSE)

injectEnvironmentVariables(workflowData, workflowConfig, environment, version, currentDate) ==
    IF \/ ~workflowConfig.hasEntry
       \/ ~workflowConfig.hasVariables
       \/ workflowConfig.variables[environment] = ""
    THEN Left(workflowData, FALSE)
    ELSE IF ~workflowData.hasNodes THEN Left(workflowData, FALSE)
    ELSE
    LET jsCode == JsCode(workflowConfig.variables[environment], environment, version)
        found == FirstWhere(workflowData.nodes, IsConfigNode)
        nodes == IF found = 0 THEN Append(workflowData.nodes, NewConfigNode)
                 ELSE workflowData.nodes
        at == IF found = 0 THEN Len(nodes) ELSE found
        trigger == IF found = 0 THEN FindTrigger(nodes, 1) ELSE 0
        pushed == [workflowData EXCEPT !.nodes = nodes]
        connected ==
            IF trigger > 0 /\ workflowData.hasConnections
            THEN LET from == nodes[trigger].name
                 IN  [pushed EXCEPT
                        !.keys = @ \cup {from, "Configuration"},
                        !.links = {l \in @ : l[1] \notin {from, "Configuration"}}
                                  \cup {<<from, "Configuration">>}]
            ELSE pushed
        configNode == nodes[at]
        updated ==
            IF configNode.type = CodeType
            THEN [connected EXCEPT !.nodes[at].jsCode = jsCode]
            ELSE [connected EXCEPT !.nodes[at] =
                     [configNode EXCEPT !.type = CodeType, !.hasParameters = TRUE,
                                        !.jsCode = jsCode, !.content = "", !.color = 0]]
    IN  IF trigger = -1 THEN Left(pushed, TRUE)
        ELSE IF configNode.type = CodeType /\ ~configNode.hasParameters
        THEN Left(connected, TRUE)
        ELSE IF version # ""
        THEN addOrUpdateVersionStickyNote(updated, version, environment, currentDate)
        ELSE Left(updated, FALSE)

\* The nodes, connections, configurations, versions and dates the injector is
\* run on
InjectNodes ==
    { WNode("When clicked", "n8n-nodes-base.manualTrigger", TRUE, "", "", 0),
      WNode("Fetch", "n8n-nodes-base.httpRequest", TRUE, "", "", 0),
      WNode("Fetch", "", TRUE, "", "", 0),
      WNode("", "n8n-nodes-base.httpRequest", TRUE, "", "", 0),
      WNode("Fetch", "n8n-nodes-base.httpRequest", FALSE, "", "", 0),
      WNode("Configuration", CodeType, TRUE, "return {old:1};", "", 0),
      WNode("Configuration", CodeType, FALSE, "", "", 0),
      WNode("Variables", "n8n-nodes-base.set", TRUE, "", "", 0),
      WNode("Version Info", StickyType, TRUE, "", "todo", 0),
      WNode("Version Info", StickyType, FALSE, "", "", 0) }
InjectNodeLists ==
    {<<>>} \cup {<<a>> : a \in InjectNodes}
           \cup {<<a, b>> : a \in InjectNodes, b \in InjectNodes}
InjectEntities ==
    {WorkflowData(FALSE, <<>>, c, {}, {}) : c \in BOOLEAN}
    \cup {WorkflowData(TRUE, n, c, {}, {}) : n \in InjectNodeLists, c \in BOOLEAN}
InjectConfigs ==
    { WorkflowConfig(FALSE, FALSE, "", ""),
      WorkflowConfig(TRUE, FALSE, "", ""),
      WorkflowConfig(TRUE, TRUE, "", "url:prod"),
      WorkflowConfig(TRUE, TRUE, "url:dev", "url:prod") }
InjectVersions == {"", "v1.2.0"}
InjectDates == {"2025-01-01", "2025-01-02"}

\* ManagedWorkflowManager.injectEnvironmentVariables, called on an entity
Inject ==
    /\ tool = "none"
    /\ \E workflowData \in InjectEntities, workflowConfig \in InjectConfigs,
          environment \in {"dev", "prod"}, version \in InjectVersions :
          Ran("inject",
              [workflowConfig |-> workflowConfig, environment |-> environment,
               version |-> version, workflowData |-> workflowData],
              <<injectEnvironmentVariables(workflowData, workflowConfig,
                                           environment, version, "2025-01-01")>>)

\* ... and called once more on the entity as the first call left it
InjectAgain ==
    /\ tool = "inject"
    /\ Len(output) = 1
    /\ \E currentDate \in InjectDates :
          output' = Append(output,
              injectEnvironmentVariables(output[1].workflowData, input.workflowConfig,
                                         input.environment, input.version, currentDate))
    /\ UNCHANGED <<tool, input, world, batch, bkp, ctl, runs>>

\* ------------------------------------------------------ ReleaseManager
DigitChars == <<"0", "1", "2", "3", "4", "5", "6", "7", "8", "9">>
IsDigit(c) == \E i \in 1..Len(DigitChars) : DigitChars[i] = c
DigitValue(c) == (CHOOSE i \in 1..Len(DigitChars) : DigitChars[i] = c) - 1

\* String.prototype.split on a one-character separator
RECURSIVE Split(_, _)
Split(s, sep) ==
    IF \E i \in 1..Len(s) : s[i] = sep
    THEN LET at == CHOOSE i \in 1..Len(s) :
                       s[i] = sep /\ \A j \in 1..(i - 1) : s[j] # sep
         IN  <<SubSeq(s, 1, at - 1)>> \o Split(SubSeq(s, at + 1, Len(s)), sep)
    ELSE <<s>>

\* The digits a string starts with
RECURSIVE LeadingDigits(_)
LeadingDigits(s) ==
    IF s # <<>> /\ IsDigit(Head(s)) THEN <<Head(s)>> \o LeadingDigits(Tail(s))
    ELSE <<>>

RECURSIVE DigitsValue(_)
DigitsValue(d) ==
    IF d = <<>> THEN 0
    ELSE 10 * DigitsValue(SubSeq(d, 1, Len(d) - 1)) + DigitValue(d[Len(d)])

\* parseInt(x) || 0: the number a string starts with, 0 when it starts with none
ParseIntOrZero(s) == DigitsValue(LeadingDigits(s))

\* a number in a template literal
RECURSIVE NumberText(_)
NumberText(n) ==
    IF n < 10 THEN <<DigitChars[n + 1]>>
    ELSE NumberText(n \div 10) \o <<DigitChars[(n % 10) + 1]>>

\* ReleaseManager.suggestNextVersion: the patch suggestion
suggestNextVersion(currentVersion) ==
    IF currentVersion = Empty THEN <<"v", "1", ".", "0", ".", "0">>
    ELSE
    LET cleanVersion == IF Head(currentVersion) = "v" THEN Tail(currentVersion)
                        ELSE currentVersion
        split == Split(cleanVersion, ".")
        parts == [i \in 1..Len(split) |-> ParseIntOrZero(split[i])]
        Part(i) == IF i <= Len(parts) THEN parts[i] ELSE 0
    IN  <<"v">> \o NumberText(IF Part(1) = 0 THEN 1 ELSE Part(1))
              \o <<".">> \o NumberText(Part(2))
              \o <<".">> \o NumberText(Part(3) + 1)

\* The version tag text of a major, minor and patch number
VersionText(major, minor, patch) ==
    <<"v">> \o NumberText(major) \o <<".">> \o NumberText(minor)
            \o <<".">> \o NumberText(patch)

\* The current versions the suggestion is asked for: none, every released
\* version up to the bound, and texts that are not of that form
CurrentVersions ==
    {Empty}
    \cup {VersionText(a, b, c) : a, b, c \in 0..MaxVersionPart}
    \cup {Tail(VersionText(1, 2, 3)), <<"v", "1", ".", "2">>, <<"v", "x">>}

\* ReleaseManager.suggestNextVersion
SuggestNextVersion ==
    /\ tool = "none"
    /\ \E currentVersion \in CurrentVersions :
          Ran("suggestNextVersion", currentVersion,
              <<suggestNextVersion(currentVersion)>>)

\* ---------------------------------------------------- the latest release
\* sanitizeForGit, and the same three replacements in findLatestReleaseTag
RECURSIVE HyphenRuns(_)
HyphenRuns(s) ==
    IF s = <<>> THEN <<>>
    ELSE IF Head(s) \in LowerCase \/ IsDigit(Head(s))
         THEN <<Head(s)>> \o HyphenRuns(Tail(s))
         ELSE IF Len(s) > 1 /\ ~(s[2] \in LowerCase \/ IsDigit(s[2]))
              THEN HyphenRuns(Tail(s))
              ELSE <<"-">> \o HyphenRuns(Tail(s))
TrimHyphens(s) ==
    LET a == IF s # <<>> /\ Head(s) = "-" THEN Tail(s) ELSE s
    IN  IF a # <<>> /\ a[Len(a)] = "-" THEN SubSeq(a, 1, Len(a) - 1) ELSE a
sanitizeForGit(name) == TrimHyphens(HyphenRuns(LowerAll(name)))

\* The UTF-16 code units of the characters a tag is written with, in order
CodeUnitOrder ==
    <<"-", ".">> \o DigitChars
    \o <<"a", "b", "c", "d", "e", "j", "n", "o", "p", "r", "s", "v", "x", "y">>
CodeUnit(c) == CHOOSE i \in 1..Len(CodeUnitOrder) : CodeUnitOrder[i] = c

\* a < b as Array.prototype.sort() without a comparator orders strings
RECURSIVE StringLess(_, _)
StringLess(a, b) ==
    IF b = <<>> THEN FALSE
    ELSE IF a = <<>> THEN TRUE
    ELSE IF Head(a) # Head(b) THEN CodeUnit(Head(a)) < CodeUnit(Head(b))
    ELSE StringLess(Tail(a), Tail(b))

\* git tag -l "<sanitizedName>-*": the tags of the released versions
TagsOf(sanitizedName, released) == {sanitizedName \o <<"-">> \o v : v \in released}

\* DeploymentManager.findLatestReleaseTag: tagList.sort().pop(), or null
findLatestReleaseTag(workflowName, released) ==
    LET tagList == TagsOf(sanitizeForGit(workflowName), released)
    IN  IF tagList = {} THEN Empty
        ELSE CHOOSE t \in tagList : \A u \in tagList : u = t \/ StringLess(u, t)

\* ReleaseManager.compareVersions
compareVersions(a, b) ==
    LET cleanA == IF a # <<>> /\ Head(a) = "v" THEN Tail(a) ELSE a
        cleanB == IF b # <<>> /\ Head(b) = "v" THEN Tail(b) ELSE b
        splitA == Split(cleanA, ".")
        splitB == Split(cleanB, ".")
        NumA(i) == IF i <= Len(splitA) THEN ParseIntOrZero(splitA[i]) ELSE 0
        NumB(i) == IF i <= Len(splitB) THEN ParseIntOrZero(splitB[i]) ELSE 0
        maxLength == IF Len(splitA) > Len(splitB) THEN Len(splitA) ELSE Len(splitB)
        differ == {i \in 1..maxLength : NumA(i) # NumB(i)}
    IN  IF differ = {} THEN 0
        ELSE LET i == CHOOSE k \in differ : \A l \in differ : k <= l
             IN  IF NumA(i) > NumB(i) THEN 1 ELSE -1

\* ReleaseManager.getCurrentReleasedVersion: the first of the versions sorted
\* newest first by compareVersions (a stable sort of git's listing), or null
getCurrentReleasedVersion(workflowName, released) ==
    LET sanitizedName == sanitizeForGit(workflowName)
        tags == TagsOf(sanitizedName, released)
        VersionOf(tag) == SubSeq(tag, Len(sanitizedName) + 2, Len(tag))
        Before(t, u) ==
            \/ compareVersions(VersionOf(t), VersionOf(u)) = 1
            \/ /\ compareVersions(VersionOf(t), VersionOf(u)) = 0
               /\ StringLess(t, u)
    IN  IF tags = {} THEN Empty
        ELSE VersionOf(CHOOSE t \in tags : \A u \in tags : u = t \/ Before(t, u))

\* The versions released so far: any of these
ReleasedVersions ==
    {VersionText(1, 2, 0), VersionText(1, 2, 3), VersionText(1, MaxVersionPart, 0),
     VersionText(1, MaxVersionPart + 1, 0), VersionText(2, 0, 0),
     VersionText(MaxVersionPart + 1, 0, 0)}

\* The latest release of a workflow, asked of both managers
LatestRelease ==
    /\ tool = "none"
    /\ \E workflowName \in {BaseXy, BaseS}, released \in SUBSET ReleasedVersions :
          Ran("latestRelease",
              [workflowName |-> workflowName, released |-> released],
              [latestTag |-> findLatestReleaseTag(workflowName, released),
               currentVersion |-> getCurrentReleasedVersion(workflowName, released)])

\* ---------------------------------------------------- DeploymentManager
\* A path as git or the directory listing gives it: folder/stem.ext
Path(folder, stem, ext) == [folder |-> folder, stem |-> stem, ext |-> ext]

\* A file of workflows/: its name, and what reading it gives: an entity with a
\* name ("ok"), an entity without one ("noname") or no JSON ("invalid")
DiskFile(stem, ext, state, name) ==
    [stem |-> stem, ext |-> ext, state |-> state, name |-> name]

\* workflows/ (or none) with the files it holds
WorkflowsDir(exists, files) == [exists |-> exists, files |-> files]

\* String.prototype.toUpperCase, one character
ToUpper(c) ==
    CASE c = "a" -> "A" [] c = "b" -> "B" [] c = "c" -> "C" [] c = "d" -> "D"
      [] c = "e" -> "E" [] c = "j" -> "J" [] c = "n" -> "N" [] c = "o" -> "O"
      [] c = "p" -> "P" [] c = "r" -> "R" [] c = "s" -> "S" [] c = "v" -> "V"
      [] c = "x" -> "X" [] c = "y" -> "Y"
      [] OTHER -> c

\* \w of a regular expression
IsWordChar(c) == c \in UpperCase \cup LowerCase \cup Digits \cup {"_"}

\* .replace(/_/g, ' ')
UnderscoresToSpaces(s) == [i \in 1..Len(s) |-> IF s[i] = "_" THEN " " ELSE s[i]]

\* .replace(/\b\w/g, l => l.toUpperCase()): the first character of every word
CapitaliseWords(s) ==
    [i \in 1..Len(s) |->
        IF IsWordChar(s[i]) /\ (i = 1 \/ ~IsWordChar(s[i - 1]))
        THEN ToUpper(s[i]) ELSE s[i]]

\* .replace(/\s+/g, ' ')
RECURSIVE CollapseToSpace(_)
CollapseToSpace(s) ==
    IF s = <<>> THEN <<>>
    ELSE IF Head(s) \in WhiteSpace
         THEN IF Len(s) > 1 /\ s[2] \in WhiteSpace
              THEN CollapseToSpace(Tail(s))
              ELSE <<" ">> \o CollapseToSpace(Tail(s))
         ELSE <<Head(s)>> \o CollapseToSpace(Tail(s))

\* String.prototype.trim
RECURSIVE Trim(_)
Trim(s) ==
    IF s = <<>> THEN <<>>
    ELSE IF Head(s) \in WhiteSpace THEN Trim(Tail(s))
    ELSE IF s[Len(s)] \in WhiteSpace THEN Trim(SubSeq(s, 1, Len(s) - 1))
    ELSE s

\* extractWorkflowBaseName: the base name of the entity the file holds when
\* the file is there, parses and has a name; else one derived from the file
\* name. Empty stands for a result that counts as none ('' or null).
extractWorkflowBaseName(path, dir) ==
    LET onDisk == {i \in 1..Len(dir.files) :
                      /\ dir.exists /\ path.folder = "workflows"
                      /\ dir.files[i].stem = path.stem
                      /\ dir.files[i].ext = path.ext}
    IN  IF \E i \in onDisk : dir.files[i].state = "ok"
        THEN LET i == CHOOSE i \in onDisk : dir.files[i].state = "ok"
             IN  getBaseNameFromWorkflowName(dir.files[i].name)
        ELSE Trim(CollapseToSpace(CapitaliseWords(UnderscoresToSpaces(path.stem))))

\* Array.from(new Set(...)): a sequence without its repetitions
RECURSIVE Distinct(_)
Distinct(seq) ==
    IF seq = <<>> THEN <<>>
    ELSE LET front == Distinct(SubSeq(seq, 1, Len(seq) - 1))
         IN  IF \E i \in 1..Len(front) : front[i] = seq[Len(seq)]
             THEN front ELSE Append(front, seq[Len(seq)])

\* The paths of the files of workflows/ that pass a filter
ListWorkflows(dir, Keep(_)) ==
    LET kept == SelectSeq(dir.files, Keep)
    IN  [i \in 1..Len(kept) |-> Path("workflows", kept[i].stem, kept[i].ext)]

\* file.endsWith('.json') && !file.includes('_'), and file.endsWith('.json')
IsJsonWithoutUnderscore(file) == file.ext = "json" /\ "_" \notin SeqToSet(file.stem)
IsJsonFile(file) == file.ext = "json"

\* file.match(/^workflows\/(.+)\.json$/)
IsWorkflowPath(path) ==
    path.folder = "workflows" /\ path.ext = "json" /\ Len(path.stem) > 0

\* detectWorkflowsToDeploy: git is either "failed" with no changed files or
\* "ok" with the files git names; the outcome is the base names detected, or
\* the raise when there is none
detectWorkflowsToDeploy(git, dir) ==
    LET changedFiles ==
            IF git.state = "ok" THEN git.changed
            ELSE IF dir.exists THEN ListWorkflows(dir, IsJsonWithoutUnderscore)
            ELSE <<>>
        files ==
            IF Len(changedFiles) = 0 /\ dir.exists
            THEN ListWorkflows(dir, IsJsonFile)
            ELSE changedFiles
        matching == SelectSeq(files, IsWorkflowPath)
        baseNames == [i \in 1..Len(matching) |-> extractWorkflowBaseName(matching[i], dir)]
        workflowsToDeployArray == Distinct(SelectSeq(baseNames, LAMBDA b : b # Empty))
    IN  IF Len(workflowsToDeployArray) = 0
        THEN [raised |-> TRUE, workflows |-> <<>>]
        ELSE [raised |-> FALSE, workflows |-> workflowsToDeployArray]

\* The files, directories and git answers detection is run on
StemXyDev == <<"x", "_", "y", "-", "d", "e", "v">>
StemX == <<"x">>
StemUnderscore == <<"_">>
StemReadme == <<"r">>
DetectFiles ==
    << DiskFile(StemXyDev, "json", "ok", BaseXy \o SfxDev),
       DiskFile(StemX, "json", "invalid", Empty),
       DiskFile(StemUnderscore, "json", "noname", Empty),
       DiskFile(StemReadme, "md", "invalid", Empty) >>
DetectDirs ==
    {WorkflowsDir(FALSE, <<>>)}
    \cup {WorkflowsDir(TRUE, SelectSeq(DetectFiles, LAMBDA f : f \in keep)) :
             keep \in SUBSET SeqToSet(DetectFiles)}
DetectGits ==
    {[state |-> "failed", changed |-> <<>>], [state |-> "ok", changed |-> <<>>]}
    \cup {[state |-> "ok", changed |-> <<p>>] :
             p \in {Path("workflows", StemXyDev, "json"), Path("workflows", StemX, "json"),
                    Path("workflows", StemUnderscore, "json"),
                    Path("workflows", StemReadme, "md"),
                    Path("scripts", StemX, "json")}}
    \cup {[state |-> "ok", changed |->
              <<Path("workflows", StemXyDev, "json"), Path("workflows", StemX, "json")>>]}

\* deployment-manager.js detect-workflows [before-commit] [after-commit]
DetectWorkflows ==
    /\ tool = "none"
    /\ \E git \in DetectGits, dir \in DetectDirs :
          Ran("detectWorkflowsToDeploy", [git |-> git, dir |-> dir],
              <<detectWorkflowsToDeploy(git, dir)>>)

\* ------------------------------------------------ the tools' machine
NextTools ==
    \/ VerifyOne \/ VerifyAllFirst \/ VerifyAllNext
    \/ Compare
    \/ GenerateFileName \/ GenerateFileNameAgain \/ SuffixRoundTrip
    \/ Inject \/ InjectAgain
    \/ SuggestNextVersion
    \/ GetSuffix
    \/ DetectWorkflows
    \/ LatestRelease

SpecTools == InitTools /\ [][NextTools]_vars

\* ================================================ deploys side by side
\* Deploy commands of one base name started in separate processes against the
\* same remote service. Every await of deploySingleWorkflow is a point where
\* another process can run: the list is fetched in one step and the create or
\* update is sent in a later one. No file read and no remote call fails here.
RaceBaseNames == <<BaseXy>>

\* A deploy command before its first step
NewRun ==
    [pc |-> "start", devWorkflows |-> <<>>, at |-> 1, allWorkflows |-> <<>>,
     calls |-> <<>>, decidedOn |-> <<>>, results |-> <<>>, overlapped |-> FALSE]

InitRace ==
    /\ remote \in InitRemotes
    /\ nextId = Len(RemoteUniverse) + 1
    /\ config = [backupBeforeDeploy |-> FALSE, backupBeforeImport |-> FALSE,
                 maxBackupsToKeep |-> 0]
    /\ wfdir = WriteFile(WriteFile(<<>>, FileXy, Obj(FullKeys, BaseXy \o SfxDev, TRUE)),
                         FileS, Obj(FullKeys \ ExportStripped, BaseS \o SfxDev, FALSE))
    /\ backups = <<>> /\ wbackups = <<>> /\ clock = 0
    /\ pc = "idle" /\ op = NoOp
    /\ resolved = <<>> /\ results = <<>> /\ currentWorkflows = <<>> /\ calls = <<>>
    /\ remoteAtStart = remote
    /\ workflowsToBackup = <<>> /\ backupResults = <<>> /\ retv = NoRet
    /\ listing = <<>> /\ outcome = "none" /\ deleted = {} /\ prev = NoPrev
    /\ faults = 0
    /\ tool = "none" /\ input = <<>> /\ output = <<>>
    /\ runs = [r \in 1..MaxRuns |-> NewRun]

\* What a step of a run leaves alone
RaceFrame ==
    UNCHANGED <<config, wfdir, backups, wbackups, clock, batch, bkp, ctl, tool, input, output>>

\* The run goes on to its next dev workflow, or ends
Advance(run) ==
    [run EXCEPT !.at = @ + 1,
                !.pc = IF run.at < Len(run.devWorkflows) THEN "read" ELSE "done"]

\* deployDevToProd: getSpecificWorkflows(workflowBaseNames, 'dev')
RaceResolve(r) ==
    /\ runs[r].pc = "start"
    /\ LET devWorkflows == getSpecificWorkflows(getAllWorkflows, RaceBaseNames, "dev")
       IN  runs' = [runs EXCEPT ![r].devWorkflows = devWorkflows,
                                ![r].pc = IF Len(devWorkflows) = 0 THEN "done" ELSE "read"]
    /\ UNCHANGED <<remote, nextId>>
    /\ RaceFrame

\* deploySingleWorkflow up to `await this.getAllWorkflows()`: the exported file
\* is read (a missing file fails the entity) and the remote list is fetched
RaceFetch(r) ==
    /\ runs[r].pc = "read"
    /\ LET devWorkflow == runs[r].devWorkflows[runs[r].at]
           baseName == getBaseNameFromWorkflowName(devWorkflow.name)
       IN  IF generateFileName(devWorkflow.name) \notin DOMAIN wfdir
           THEN runs' = [runs EXCEPT ![r] =
                            Advance([@ EXCEPT !.results = Append(@, Failed(baseName))])]
           ELSE runs' = [runs EXCEPT
                            ![r].allWorkflows = getAllWorkflows,
                            ![r].pc = "send",
                            ![r].overlapped =
                                @ \/ \E q \in DOMAIN runs : q # r /\ runs[q].pc = "send"]
    /\ UNCHANGED <<remote, nextId>>
    /\ RaceFrame

\* A send that looks the name up in the remote list as it stands when it sends
RaceSendAtomic(r) ==
    /\ runs[r].pc = "send"
    /\ LET devWorkflow == runs[r].devWorkflows[runs[r].at]
           baseName == getBaseNameFromWorkflowName(devWorkflow.name)
           prodWorkflowName == baseName \o getSuffix("prod")
           c == Reconcile(getAllWorkflows, prodWorkflowName,
                          DeployPayload(wfdir[generateFileName(devWorkflow.name)],
                                        prodWorkflowName), TRUE)
       IN  /\ remote' = Applied(remote, c, nextId)
           /\ nextId' = IF c.kind = "create" THEN nextId + 1 ELSE nextId
           /\ runs' = [runs EXCEPT ![r] =
                          Advance([@ EXCEPT !.calls = Append(@, c),
                                            !.decidedOn = Append(@, runs[r].allWorkflows),
                                            !.results = Append(@, Reconciled(baseName, c, nextId))])]
    /\ RaceFrame

\* deploySingleWorkflow from the find on the fetched list to the answer of the
\* PUT or POST
RaceSend(r) ==
    /\ runs[r].pc = "send"
    /\ LET devWorkflow == runs[r].devWorkflows[runs[r].at]
           baseName == getBaseNameFromWorkflowName(devWorkflow.name)
           prodWorkflowName == baseName \o getSuffix("prod")
           c == Reconcile(runs[r].allWorkflows, prodWorkflowName,
                          DeployPayload(wfdir[generateFileName(devWorkflow.name)],
                                        prodWorkflowName), TRUE)
       IN  /\ remote' = Applied(remote, c, nextId)
           /\ nextId' = IF c.kind = "create" THEN nextId + 1 ELSE nextId
           /\ runs' = [runs EXCEPT ![r] =
                          Advance([@ EXCEPT !.calls = Append(@, c),
                                            !.decidedOn = Append(@, runs[r].allWorkflows),
                                            !.results = Append(@, Reconciled(baseName, c, nextId))])]
    /\ RaceFrame

NextRace == \E r \in 1..MaxRuns : RaceResolve(r) \/ RaceFetch(r) \/ RaceSend(r)

SpecRace == InitRace /\ [][NextRace]_vars

\* ================================================ the full-deploy pipeline
\* deployment-manager.js full-deploy <names> [skip-backup]: backup, validate,
\* deploy, verify, summary, inside one try whose catch exits with 1. The
\* settings take no automatic backup before an import; at most MaxFaults
\* fetches of the remote list fail.
NewPipeline(at) ==
    [at |-> at, steps |-> <<>>, raisedAt |-> "none", deploymentResults |-> <<>>,
     imports |-> <<>>, calls |-> <<>>]

InitPipeline ==
    /\ remote \in InitRemotes
    /\ nextId = Len(RemoteUniverse) + 1
    /\ config = [backupBeforeDeploy |-> FALSE, backupBeforeImport |-> FALSE,
                 maxBackupsToKeep |-> 0]
    /\ wfdir \in InitWorkflowDirs \cup {WriteFile(<<>>, FileS, Obj(FullKeys, BaseS \o SfxDev, FALSE))}
    /\ backups = <<>> /\ wbackups = <<>> /\ clock = 0
    /\ pc = "idle" /\ op = NoOp
    /\ resolved = <<>> /\ results = <<>> /\ currentWorkflows = <<>> /\ calls = <<>>
    /\ remoteAtStart = remote
    /\ workflowsToBackup = <<>> /\ backupResults = <<>> /\ retv = NoRet
    /\ listing = <<>> /\ outcome = "none" /\ deleted = {} /\ prev = NoPrev
    /\ faults = 0
    /\ tool = "none" /\ input = <<>> /\ output = <<>>
    /\ runs = <<>>

\* What no step of the pipeline touches
PipeFrame ==
    UNCHANGED <<config, wfdir, wbackups, batch, bkp, pc, op, outcome, prev, listing, runs>>

\* The step has run and the pipeline goes on to the next
Stepped(step, next) == [output EXCEPT !.steps = Append(@, step), !.at = next]

\* The step has raised: the catch of the command line exits with 1
Raised(step) ==
    [output EXCEPT !.steps = Append(@, step), !.at = "ended", !.raisedAt = step]

\* The workflow names a full-deploy is given
PipelineArgs == {<<BaseXy>>, <<BaseS>>, <<BaseXy, BaseS>>}

\* full-deploy: the arguments are read; the backup comes first unless skipped
FullDeploy ==
    /\ tool = "none"
    /\ \E deployWorkflows \in PipelineArgs, skipBackup \in BOOLEAN :
        /\ tool' = "full-deploy"
        /\ input' = [deployWorkflows |-> deployWorkflows, skipBackup |-> skipBackup]
        /\ output' = NewPipeline(IF skipBackup THEN "validate" ELSE "backup")
    /\ UNCHANGED <<remote, nextId, backups, clock, faults>>
    /\ PipeFrame

\* createBackup's loop over the managed workflows, every export succeeding
RECURSIVE ExportAll(_, _, _)
ExportAll(files, list, i) ==
    IF i > Len(list) THEN files
    ELSE ExportAll(exportSingleWorkflow(files, list[i]), list, i + 1)

\* DeploymentManager.createBackup(): a prod backup under a pre_deploy_auto name
PipeBackup ==
    /\ tool = "full-deploy" /\ output.at = "backup"
    /\ \E ok \in BOOLEAN :
        IF ok
        THEN LET backupName == PreDeployName(clock + 1)
                 found == getManagedWorkflows(getAllWorkflows, "prod")
                 made == MkDir(backups, backupName, clock + 1)
                 written == [made EXCEPT ![backupName].files = ExportAll(@, found, 1),
                                         ![backupName].meta =
                                             IF Len(found) = 0 THEN @ ELSE Meta(Len(found), 0)]
             IN  /\ backups' = IF Len(found) = 0 THEN made
                               ELSE cleanupOldBackups(written, defaultKeepCount(config))
                 /\ clock' = clock + 1
                 /\ output' = Stepped("backup", "validate")
                 /\ UNCHANGED faults
        ELSE /\ Fault
             /\ backups' = MkDir(backups, PreDeployName(clock + 1), clock + 1)
             /\ clock' = clock + 1
             /\ output' = Raised("backup")
    /\ UNCHANGED <<remote, nextId, tool, input>>
    /\ PipeFrame

\* `${workflowName}-dev` is in the list for every workflow name
AllDevFound(allWorkflows, workflowNames) ==
    \A i \in 1..Len(workflowNames) : HasName(allWorkflows, workflowNames[i] \o SfxDev)

\* A validation that lets every name through
PipeValidateLenient ==
    /\ tool = "full-deploy" /\ output.at = "validate"
    /\ \E ok \in BOOLEAN :
        IF ok
        THEN /\ output' = Stepped("validate", "deploy")
             /\ UNCHANGED faults
        ELSE /\ Fault
             /\ output' = Raised("validate")
    /\ UNCHANGED <<remote, nextId, backups, clock, tool, input>>
    /\ PipeFrame

\* validateWorkflowsExist
PipeValidate ==
    /\ tool = "full-deploy" /\ output.at = "validate"
    /\ \E ok \in BOOLEAN :
        IF ok
        THEN /\ output' = IF AllDevFound(getAllWorkflows, input.deployWorkflows)
                          THEN Stepped("validate", "deploy")
                          ELSE Raised("validate")
             /\ UNCHANGED faults
        ELSE /\ Fault
             /\ output' = Raised("validate")
    /\ UNCHANGED <<remote, nextId, backups, clock, tool, input>>
    /\ PipeFrame

\* deployWorkflows: one iteration, importLocalWorkflows('prod', [workflowName])
\* inside its try. The import throws when workflows/ holds no workflow file or
\* the fetch of the remote list fails; it returns [] when no file matches the
\* name, and returns its outcome records, failed ones included, otherwise.
PipeDeploy ==
    /\ tool = "full-deploy" /\ output.at = "deploy"
    /\ Len(output.deploymentResults) < Len(input.deployWorkflows)
    /\ LET workflowName == input.deployWorkflows[Len(output.deploymentResults) + 1]
           workflowFiles == WorkflowFiles(wfdir)
           filesToImport == SelectFiles(workflowFiles, <<workflowName>>, "prod")
           Reported(status, records, sent) ==
               [output EXCEPT
                  !.deploymentResults = Append(@, [workflow |-> workflowName, status |-> status]),
                  !.imports = Append(@, records),
                  !.calls = @ \o sent]
       IN
       IF Len(workflowFiles) = 0
       THEN /\ output' = Reported("failed", <<>>, <<>>)
            /\ UNCHANGED <<remote, nextId, faults>>
       ELSE IF Len(filesToImport) = 0
       THEN /\ output' = Reported("success", <<>>, <<>>)
            /\ UNCHANGED <<remote, nextId, faults>>
       ELSE \E fault \in {"none", "fetch", "send"} :
            /\ IF fault = "none" THEN UNCHANGED faults ELSE Fault
            /\ IF fault = "fetch"
               THEN /\ output' = Reported("failed", <<>>, <<>>)
                    /\ UNCHANGED <<remote, nextId>>
               ELSE LET workflowFile == filesToImport[1]
                        workflowData == wfdir[workflowFile]
                        targetName == getBaseNameFromWorkflowName(workflowData.name)
                                          \o getSuffix("prod")
                        c == Reconcile(getAllWorkflows, targetName,
                                       ImportPayload(workflowData, targetName), fault = "none")
                    IN  /\ remote' = Applied(remote, c, nextId)
                        /\ nextId' = IF c.ok /\ c.kind = "create" THEN nextId + 1 ELSE nextId
                        /\ output' = Reported("success",
                               <<IF c.ok THEN Reconciled(workflowFile, c, nextId)
                                 ELSE Failed(workflowFile)>>, <<c>>)
    /\ UNCHANGED <<backups, clock, tool, input>>
    /\ PipeFrame

\* deployWorkflows after its loop: it throws when a workflow was reported failed
PipeDeployEnd ==
    /\ tool = "full-deploy" /\ output.at = "deploy"
    /\ Len(output.deploymentResults) = Len(input.deployWorkflows)
    /\ output' = IF \E i \in 1..Len(output.deploymentResults) :
                       output.deploymentResults[i].status = "failed"
                 THEN Raised("deploy")
                 ELSE Stepped("deploy", "verify")
    /\ UNCHANGED <<remote, nextId, backups, clock, faults, tool, input>>
    /\ PipeFrame

\* verifyDeployment
PipeVerify ==
    /\ tool = "full-deploy" /\ output.at = "verify"
    /\ \E ok \in BOOLEAN :
        IF ok
        THEN /\ output' =
                  IF \A i \in 1..Len(input.deployWorkflows) :
                         HasName(getAllWorkflows, input.deployWorkflows[i] \o SfxProd)
                  THEN Stepped("verify", "summary")
                  ELSE Raised("verify")
             /\ UNCHANGED faults
        ELSE /\ Fault
             /\ output' = Raised("verify")
    /\ UNCHANGED <<remote, nextId, backups, clock, tool, input>>
    /\ PipeFrame

\* saveDeploymentSummary, and the end of the command
PipeSummary ==
    /\ tool = "full-deploy" /\ output.at = "summary"
    /\ output' = Stepped("summary", "ended")
    /\ UNCHANGED <<remote, nextId, backups, clock, faults, tool, input>>
    /\ PipeFrame

NextPipeline ==
    \/ FullDeploy \/ PipeBackup \/ PipeValidate
    \/ PipeDeploy \/ PipeDeployEnd \/ PipeVerify \/ PipeSummary

SpecPipeline == InitPipeline /\ [][NextPipeline]_vars

\* ============================================================ properties
\* A command has ended with a return.
Returned(cmd) == pc = "idle" /\ op.cmd = cmd /\ outcome = "returned"

\* The number of entities of a list that carry a name
CountNamed(list, n) == Len(SelectSeq(list, LAMBDA e : e.name = n))

\* The calls a deploy sent for base name b, in the order sent
CallsFor(b) == SelectSeq(calls, LAMBDA c : c.payload.name = b \o SfxProd)

\* The dev-side entities deployDevToProd selected for base name b
SelectedFor(b) == SelectSeq(resolved, LAMBDA w : getBaseNameFromWorkflowName(w.name) = b)

\* A deploy of base name b has run to its end without any failure, the dev
\* entity of b existed remotely and the exported file of b was on disk.
Deployed(b) ==
    /\ Returned("deploy")
    /\ faults = 0
    /\ b \in SeqToSet(op.specific)
    /\ HasName(remoteAtStart, b \o SfxDev)
    /\ generateFileName(b \o SfxDev) \in DOMAIN wfdir

C2_RoundTrip ==
    (/\ pc = "idle" /\ op.cmd = "restore"
     /\ prev.cmd = "backup" /\ prev.outcome = "returned"
     /\ prev.retv.environment = "prod"
     /\ faults = 0)
    => /\ outcome = "returned"
       /\ Len(results) = Len(prev.retv.workflows)
       /\ \A i \in 1..Len(results) : results[i].status = "success"

\* C3: in a backup or a deploy, cleanupOldBackups has removed a directory only
\* if the backup taken just before it wrote every entity file and its manifest.
C3_PruneAfterWrite ==
    (op.cmd \in {"backup", "deploy"} /\ deleted # {})
    => /\ workflowsToBackup # <<>>
       /\ Len(backupResults) = Len(workflowsToBackup)
       /\ Failures(backupResults) = 0
       /\ retv.kind = "manifest"
       /\ retv.workflowCount = Len(workflowsToBackup)

\* The keep-count the pruning step about to run is given
KeepCountHere == IF pc = "cleanup" THEN op.keepCount ELSE defaultKeepCount(config)

\* What a pruning step does to backups/, stated on the step itself
PruneStep ==
    pc \in {"cleanup", "backup_cleanup", "deploy_cleanup"} =>
        LET k == KeepCountHere
            n == Cardinality(DOMAIN backups)
            gone == DOMAIN backups \ DOMAIN backups'
        IN /\ DOMAIN backups' \subseteq DOMAIN backups
           /\ Cardinality(gone) = IF n > k THEN n - k ELSE 0
           /\ \A g \in gone : \A r \in DOMAIN backups' :
                  backups[g].created < backups[r].created
           /\ \A r \in DOMAIN backups' : backups'[r] = backups[r]
           /\ deleted' = deleted \cup {[name |-> g, created |-> backups[g].created] : g \in gone}

LoopPcs == {"export", "deploy", "import", "restore"}

\* One iteration of a batch loop, stated on the step itself: the loop stays in
\* the loop, the command has not ended, exactly one record is appended behind
\* the records so far, and the record of a step that raised is a failed one.
BatchStep ==
    /\ (pc \in LoopPcs /\ Len(results) < Len(resolved)) =>
          /\ pc' = pc /\ outcome' = outcome /\ resolved' = resolved
          /\ Len(results') = Len(results) + 1
          /\ SubSeq(results', 1, Len(results)) = results
          /\ faults' # faults => /\ results'[Len(results')].status = "failed"
                                 /\ results'[Len(results')].error = "error.message"
    /\ (pc = "backup" /\ Len(backupResults) < Len(workflowsToBackup)) =>
          /\ pc' = pc /\ outcome' = outcome /\ workflowsToBackup' = workflowsToBackup
          /\ Len(backupResults') = Len(backupResults) + 1
          /\ SubSeq(backupResults', 1, Len(backupResults)) = backupResults
          /\ faults' # faults => /\ backupResults'[Len(backupResults')].status = "failed"
                                 /\ backupResults'[Len(backupResults')].error = "error.message"
                                 /\ backupResults'[Len(backupResults')].key =
                                        workflowsToBackup[Len(backupResults')].name

\* A batch whose loop was entered has ended: with a return, and with one record
\* for every entity it resolved.
BatchEnded ==
    /\ (pc = "idle" /\ op.cmd \in LoopPcs /\ resolved # <<>>) =>
          /\ outcome = "returned"
          /\ Len(results) = Len(resolved)
    /\ (workflowsToBackup # <<>> /\ pc # "backup") =>
          /\ Len(backupResults) = Len(workflowsToBackup)
          /\ \A i \in 1..Len(backupResults) :
                backupResults[i].key = workflowsToBackup[i].name
          /\ pc = "backup_cleanup" \/ retv.workflows = backupResults

\* C5: in the export, deploy, import, backup and restore batches a step that
\* raises appends a failed record for its entity and the next entity is still
\* processed; the batch ends with one record per resolved entity and no
\* exception leaves the loop.
C5_FailureIsolated == [][BatchStep]_vars /\ []BatchEnded

\* C5 witness: a batch of two ended with a return although the step of its
\* first entity raised; the second entity was processed and succeeded.
C5_Witness ==
    /\ pc = "idle" /\ outcome = "returned" /\ op.cmd \in LoopPcs
    /\ faults = 1
    /\ Len(resolved) = 2 /\ Len(results) = 2
    /\ results[1].status = "failed"
    /\ results[2].status = "success"

\* The keys no create or update payload may carry
NeverSent == {"id", "active", "createdAt", "updatedAt", "versionId", "meta", "pinData",
              "triggerCount", "shared"}

\* C6: every create or update payload of deploy, import and restore carries no
\* id, no active flag and no bookkeeping field, whatever the source file holds;
\* so an entity the command created is inactive and an entity it updated keeps
\* the active flag it had.
C6_PayloadStripped ==
    /\ \A i \in 1..Len(calls) : calls[i].payload.keys \cap NeverSent = {}
    /\ op.cmd \in {"deploy", "import", "restore"} =>
          \A i \in 1..Len(remote) :
              remote[i].active = IF HasId(remoteAtStart, remote[i].id)
                                 THEN FindById(remoteAtStart, remote[i].id).active
                                 ELSE FALSE

\* C6 witness: a deploy read a file that holds every key of the remote
\* representation with active true, and created the prod entity from it.
C6_Witness ==
    /\ Returned("deploy")
    /\ FileXy \in DOMAIN wfdir
    /\ NeverSent \subseteq wfdir[FileXy].keys
    /\ wfdir[FileXy].active
    /\ \E i \in 1..Len(calls) : calls[i].ok /\ calls[i].kind = "create"
    /\ \E i \in 1..Len(remote) : ~HasId(remoteAtStart, remote[i].id) /\ ~remote[i].active

\* The entity files exportSingleWorkflow wrote during the command: one per
\* successful record of an export, or of the backup a command took.
ExportedFiles ==
    (IF op.cmd = "export"
     THEN {wfdir[generateFileName(results[i].key)] :
              i \in {j \in 1..Len(results) : results[j].status = "success"}}
     ELSE {})
    \cup
    (IF op.backupName \in DOMAIN backups /\ op.cmd # "restore"
     THEN {backups[op.backupName].files[generateFileName(backupResults[i].key)] :
              i \in {j \in 1..Len(backupResults) : backupResults[j].status = "success"}}
     ELSE {})

\* C7, as the code has it: every entity file written by exportSingleWorkflow,
\* in an export and in a backup, holds no id, createdAt, updatedAt or versionId;
\* every other key of the remote representation, meta, pinData, triggerCount
\* and shared among them, stays in the file.
C7_ExportStripped ==
    \A o \in ExportedFiles :
        /\ o.keys \cap {"id", "createdAt", "updatedAt", "versionId"} = {}
        /\ o.keys = FullKeys \ {"id", "createdAt", "updatedAt", "versionId"}

\* C7 witness: an export ended after writing at least one entity file.
C7_Witness ==
    /\ Returned("export")
    /\ Successes(results) >= 1
    /\ ExportedFiles # {}

\* C7 as stated: no exported file holds id or any of createdAt, updatedAt,
\* versionId, meta, pinData, triggerCount, shared.
C7_AsStated ==
    \A o \in ExportedFiles : o.keys \cap ({"id"} \cup BookKeys) = {}

\* createBackup ran in this command and found the remote list without a
\* managed entity of the environment.
BackedUpNothing ==
    /\ op.cmd \in {"backup", "dm_backup", "deploy", "import"}
    /\ op.backupName # NoName
    /\ retv.kind # "none"
    /\ Len(getManagedWorkflows(remoteAtStart, op.backupEnv)) = 0

\* C8: createBackup over a remote list without managed entity of the
\* environment returns a well-formed manifest with workflowCount 0 and raises
\* nothing: the backup command and DeploymentManager.createBackup return, and
\* deployDevToProd goes on to deploy.
C8_EmptyBackupReturns ==
    BackedUpNothing =>
        /\ retv.kind = "manifest"
        /\ retv.backupName = op.backupName
        /\ retv.environment = op.backupEnv
        /\ retv.workflowCount = 0 /\ retv.failedCount = 0 /\ retv.workflows = <<>>
        /\ op.cmd \in {"backup", "dm_backup"} => outcome = "returned"
        /\ (op.cmd = "deploy" /\ faults = 0) => outcome # "threw"

\* C8 witness: a deploy with backupBeforeDeploy found no prod entity to back
\* up, got the empty manifest, and went on to create the prod entity.
C8_Witness ==
    /\ BackedUpNothing
    /\ Returned("deploy")
    /\ retv.kind = "manifest" /\ retv.workflowCount = 0
    /\ \E i \in 1..Len(calls) : calls[i].ok /\ calls[i].kind = "create"

\* C9: when createBackup has completed into a directory of its own, the
\* manifest's workflowCount is the number of entity files in the directory.
C9_CountMatchesFiles ==
    (/\ Returned("backup")
     /\ op.customName = NoName
     /\ op.backupName \in DOMAIN backups)
    => retv.workflowCount = Len(WorkflowFiles(backups[op.backupName].files))

\* C10: listBackups lists the backup created later first, whatever the names.
C10_NewestFirst ==
    Returned("list-backups") =>
        \A i \in 1..Len(listing) : \A j \in 1..Len(listing) :
            i < j => listing[i].created > listing[j].created

\* The backup file a restore processes at position i has no name field
Nameless(i) == "name" \notin wbackups[op.backupName].files[resolved[i]].keys

\* The positions among the first n of a restore's batch whose file has a name
NamedUpTo(n) == {i \in 1..n : ~Nameless(i)}

\* C11: in restoreFromBackup a backup file without name field gets a failed
\* record of its own and no create or update; every other selected file is
\* still restored, and the restore returns one record per selected file.
C11_NamelessFileFailsAlone ==
    (op.cmd = "restore" /\ resolved # <<>>) =>
        /\ \A i \in 1..Len(results) :
              Nameless(i) => results[i] = Failed(resolved[i])
        /\ Len(calls) <= Cardinality(NamedUpTo(Len(results)))
        /\ \A i \in 1..Len(calls) : calls[i].payload.name # Empty
        /\ faults = 0 =>
              /\ Len(calls) = Cardinality(NamedUpTo(Len(results)))
              /\ \A i \in NamedUpTo(Len(results)) : results[i].status = "success"
        /\ pc = "idle" => outcome = "returned" /\ Len(results) = Len(resolved)

\* C11 witness: a restore of two files returned; the first file had no name and
\* failed without a call, the second was restored by the one call sent.
C11_Witness ==
    /\ Returned("restore")
    /\ faults = 0
    /\ Len(resolved) = 2 /\ Len(results) = 2
    /\ Nameless(1) /\ results[1].status = "failed"
    /\ ~Nameless(2) /\ results[2].status = "success"
    /\ Len(calls) = 1 /\ calls[1].ok

\* A backup directory that is structurally complete: a manifest with every
\* field, the right name and the right count, and well-formed files with
\* distinct suffixed names.
Complete(dir) ==
    /\ dir.exists
    /\ dir.meta.state = "fields"
    /\ dir.meta.backupName = VerifyName
    /\ dir.meta.environment # "" /\ dir.meta.createdAt # ""
    /\ dir.meta.workflowCount = Len(dir.files)
    /\ Len(dir.files) >= 1
    /\ \A i \in 1..Len(dir.files) :
          /\ dir.files[i] \in {GoodFile("A-prod"), GoodFile("B-prod")}
          /\ \A j \in 1..Len(dir.files) : i # j => dir.files[i].name # dir.files[j].name

\* C12: verifyBackup returns pass exactly when the checks of the backup
\* recorded no error, whatever warnings they recorded; a backup without its
\* manifest gets at least one error and fails; a complete backup that is ten
\* days old gets a warning and passes.
C12_PassIffNoErrors ==
    tool \in {"verify", "verify_all"} =>
        \A i \in 1..Len(output) :
            LET dir == input[i]
                r == output[i]
            IN /\ r.passed <=> (Len(r.errors) = 0)
               /\ (dir.exists /\ dir.meta.state = "missing") =>
                      (Len(r.errors) >= 1 /\ ~r.passed)
               /\ (Complete(dir) /\ dir.ageInHours = 240) =>
                      (Len(r.warnings) >= 1 /\ r.passed)
               /\ (Complete(dir) /\ dir.size >= SmallBackupBytes
                                 /\ dir.ageInHours <= WeekInHours) =>
                      (r.warnings = <<>> /\ r.errors = <<>> /\ r.passed)

\* C12 witness: verify-backup.js --all met a backup without manifest, which
\* failed, and then a complete backup ten days old, which passed with a warning.
C12_Witness ==
    /\ tool = "verify_all" /\ Len(output) = 2
    /\ input[1].meta.state = "missing" /\ ~output[1].passed
    /\ Complete(input[2]) /\ input[2].ageInHours = 240
    /\ output[2].passed /\ Len(output[2].warnings) >= 1

\* The node_count_changed differences a comparison recorded
NodeCountChanges(r) == SelectSeq(r.differences, LAMBDA d : d.type = "node_count_changed")

\* Every entity file of a directory parses
AllValid(dir) == \A f \in DOMAIN dir : dir[f].valid

\* Backup B holds the files of backup A, one of them with exactly one more node
OneMoreNodeIn(dirA, dirB, f) ==
    /\ DOMAIN dirA = DOMAIN dirB
    /\ f \in DOMAIN dirA
    /\ NodeCount(dirB[f]) = NodeCount(dirA[f]) + 1
    /\ \A g \in DOMAIN dirA \ {f} : dirA[g] = dirB[g]

OrderSyncJson == <<"o", "r", "d", "e", "r", "_", "s", "y", "n", "c">> \o DotJson
OrderSyncJoinedJson == <<"o", "r", "d", "e", "r", "s", "y", "n", "c">> \o DotJson

\* C14, as the code has it: generateFileName gives the same file name every
\* time it is called with the same display name; "Order Sync" becomes
\* order_sync.json, and "order_sync" becomes ordersync.json, because the
\* underscore is outside the characters the function keeps. Display names that
\* differ only in case, in the width of their white space or in their
\* environment suffix do share a file name.
C14_FileNames ==
    tool = "generateFileName" =>
        /\ \A i \in 1..Len(output) : output[i] = output[1]
        /\ input[1] = OrderSync => output[1] = OrderSyncJson
        /\ input[1] = OrderUnderscoreSync => output[1] = OrderSyncJoinedJson
        /\ input[1] \in {<<"o", "r", "d", "e", "r", " ", "s", "y", "n", "c">>,
                         OrderSync \o SfxDev, OrderSync \o SfxProd,
                         <<"O", "r", "d", "e", "r", " ", " ", "S", "y", "n", "c">>}
              => output[1] = OrderSyncJson
        /\ "_" \notin {input[1][i] : i \in 1..Len(input[1])} =>
              \A i \in 1..Len(output[1]) : output[1][i] = "_" =>
                  \E j \in 1..Len(input[1]) : input[1][j] \in WhiteSpace

\* C14 witness: generateFileName ran twice on "order_sync".
C14_Witness ==
    /\ tool = "generateFileName"
    /\ input[1] = OrderUnderscoreSync
    /\ Len(output) = 2
    /\ output[2] = OrderSyncJoinedJson

\* C14 as stated: "Order Sync" and "order_sync" both become order_sync.json.
C14_AsStated ==
    (tool = "generateFileName" /\ input[1] \in {OrderSync, OrderUnderscoreSync})
    => output[1] = OrderSyncJson

\* C15: for every base name b and each of dev and prod,
\* getBaseNameFromWorkflowName(b + getSuffix(e)) is b, also when b itself ends
\* in -dev or -prod.
C15_SuffixRoundTrip ==
    tool = "getBaseNameFromWorkflowName" =>
        /\ output[1] = input.baseName \o (IF input.environment = "dev" THEN SfxDev ELSE SfxProd)
        /\ output[2] = input.baseName

\* C15 witness: the base name "a-dev" went through the dev suffix and back.
C15_Witness ==
    /\ tool = "getBaseNameFromWorkflowName"
    /\ input.baseName = <<"a", "-", "d", "e", "v">>
    /\ input.environment = "dev"
    /\ output[1] = <<"a", "-", "d", "e", "v", "-", "d", "e", "v">>
    /\ output[2] = <<"a", "-", "d", "e", "v">>

\* The Configuration (or Variables) nodes of an entity and the parameters of
\* the one the injector writes to
ConfigNodes(workflowData) == SelectSeq(workflowData.nodes, IsConfigNode)
ConfigPayload(workflowData) ==
    LET found == ConfigNodes(workflowData)
    IN  IF Len(found) = 0 THEN [hasParameters |-> FALSE, jsCode |-> ""]
        ELSE [hasParameters |-> found[1].hasParameters, jsCode |-> found[1].jsCode]
InjectedTwice == tool = "inject" /\ Len(output) = 2

\* C16: calling injectEnvironmentVariables twice on the same entity with the
\* same environment and version leaves the configuration node's payload after
\* the second call identical to the payload after the first, and the second
\* call adds no further configuration node.
C16_InjectIdempotent ==
    InjectedTwice =>
        /\ ConfigPayload(output[2].workflowData) = ConfigPayload(output[1].workflowData)
        /\ Len(ConfigNodes(output[2].workflowData))
               = Len(ConfigNodes(output[1].workflowData))

\* C17: injectEnvironmentVariables never raises on missing data: whatever the
\* entity lacks (node list, a node's type, name or parameters, connections) and
\* whatever the configuration lacks (entry, variables), the call returns
\* normally.
C17_InjectNeverRaises ==
    tool = "inject" => \A i \in 1..Len(output) : ~output[i].raised

\* C18: suggestNextVersion with no current version returns v1.0.0; for every
\* current version vM.m.p it returns vM.m.(p+1), whatever M and m are.
C18_SuggestPatch ==
    tool = "suggestNextVersion" =>
        /\ input = Empty => output[1] = VersionText(1, 0, 0)
        /\ \A a, b, c \in 0..MaxVersionPart :
               input = VersionText(a, b, c) => output[1] = VersionText(a, b, c + 1)

\* C19: getSuffix returns the fixed suffix of each known environment and fails
\* when an unknown environment is requested, so that no target name is built
\* with an empty suffix.
C19_UnknownEnvironmentFails ==
    tool = "getSuffix" =>
        /\ input.environment = "dev" =>
               ~output[1].raised /\ output[1].suffix = SfxDev
        /\ input.environment = "prod" =>
               ~output[1].raised /\ output[1].suffix = SfxProd
        /\ input.environment \notin Environments => output[1].raised

\* A deploy command has ended without a dev entity to promote: the resolution
\* went through and found none.
DeployFoundNothing ==
    /\ pc = "idle" /\ op.cmd = "deploy"
    /\ Len(getSpecificWorkflows(remoteAtStart, op.specific, "dev")) = 0

\* Detection has ended without a base name.
DetectedNothing ==
    tool = "detectWorkflowsToDeploy" /\ Len(output[1].workflows) = 0

\* C20: a deploy or promotion that resolves zero entities aborts with a
\* failure: detectWorkflowsToDeploy raises when it detects no workflow, and a
\* deploy command that finds no dev workflow to promote ends as failed.
C20_ZeroEntitiesAbort ==
    /\ DetectedNothing => output[1].raised
    /\ DeployFoundNothing => outcome = "threw"

\* A step of a deploy, import or restore loop that sends a create or update call
SendsCall == pc \in {"deploy", "import", "restore"} /\ Len(calls') = Len(calls) + 1

\* The call just sent is the decision taken against a list: an update of the
\* first entity of that name when there is one, a create otherwise
DecidedAgainst(list) ==
    LET c == calls'[Len(calls')]
    IN  IF HasName(list, c.payload.name)
        THEN c.kind = "update" /\ c.id = FindByName(list, c.payload.name).id
        ELSE c.kind = "create"

SnapshotStep ==
    SendsCall =>
        IF pc = "deploy" THEN DecidedAgainst(remote)
        ELSE /\ currentWorkflows = remoteAtStart
             /\ currentWorkflows' = currentWorkflows
             /\ DecidedAgainst(remoteAtStart)

SnapshotStepAsStated == SendsCall => DecidedAgainst(remoteAtStart)

Collide(i, j) ==
    /\ i < j
    /\ calls[i].payload.name = calls[j].payload.name
    /\ ~HasName(remoteAtStart, calls[i].payload.name)

\* C22: in an import or a restore, two files of the batch that resolve to the
\* same target name, absent from the start-of-batch list, both issue a create,
\* and each create the service answers is recorded as a success, created.
C22_BothCreate ==
    op.cmd \in {"import", "restore"} =>
        \A i, j \in 1..Len(calls) :
            Collide(i, j) =>
                /\ calls[i].kind = "create" /\ calls[j].kind = "create"
                /\ (faults = 0 /\ Len(results) = Len(calls)) =>
                       /\ results[i].status = "success" /\ results[i].action = "created"
                       /\ results[j].status = "success" /\ results[j].action = "created"
                       /\ results[i].id # results[j].id

\* C22 witness: an import into dev of the exports of 'X y-dev' and 'X y-prod',
\* with no 'X y-dev' on the remote side, ended with two creates of 'X y-dev'
\* and two entities of that name.
C22_Witness ==
    /\ pc = "idle" /\ op.cmd = "import" /\ Len(calls) = 2 /\ faults = 0
    /\ Collide(1, 2)
    /\ calls[1].kind = "create" /\ calls[2].kind = "create"
    /\ CountNamed(remote, calls[1].payload.name) = 2

\* Every run has ended.
RacesEnded == runs # <<>> /\ \A r \in DOMAIN runs : runs[r].pc = "done"

\* No run fetched the list while another run stood between its fetch and its send.
OneAtATime == \A r \in DOMAIN runs : ~runs[r].overlapped

ProdName == BaseXy \o SfxProd

\* C23: reconciliation takes no lock: every create or update of a run is the
\* decision against the list that run fetched, whatever other runs have sent
\* since; runs that do not interleave leave at most one 'X-prod' (or as many as
\* there were), and more than one 'X-prod' arises only from interleaved runs.
C23_NoLock ==
    /\ \A r \in DOMAIN runs : \A i \in 1..Len(runs[r].calls) :
           LET c == runs[r].calls[i]
               list == runs[r].decidedOn[i]
           IN  IF HasName(list, c.payload.name)
               THEN c.kind = "update" /\ c.id = FindByName(list, c.payload.name).id
               ELSE c.kind = "create"
    /\ (RacesEnded /\ OneAtATime) =>
           CountNamed(remote, ProdName) <= 1
    /\ (RacesEnded /\ CountNamed(remote, ProdName) > 1) => ~OneAtATime

\* C23 witness: two deploys of 'X y' interleaved while no 'X y-prod' existed;
\* both fetched a list without it, both sent a create, and two entities named
\* 'X y-prod' exist.
C23_Witness ==
    /\ RacesEnded
    /\ ~HasName(remoteAtStart, ProdName)
    /\ \A r \in 1..2 :
           /\ Len(runs[r].calls) = 1
           /\ runs[r].calls[1].kind = "create"
           /\ ~HasName(runs[r].decidedOn[1], ProdName)
    /\ CountNamed(remote, ProdName) = 2

\* Where a deploy command stands while its pre-deploy backup and the pruning
\* that follows are under way
BackupPcs == {"backup_start", "backup", "backup_cleanup", "deploy_cleanup"}

BackupFirstStep ==
    (op.cmd = "deploy" /\ config.backupBeforeDeploy) =>
        /\ pc \in BackupPcs => calls = <<>> /\ calls' = <<>>
        /\ Len(calls') > Len(calls) =>
               /\ retv.kind = "manifest" /\ retv.environment = "prod"
               /\ pc = "deploy"
               /\ backups' = backups
        /\ retv.kind # "manifest" => calls' = <<>>

\* C24: in a deploy with backupBeforeDeploy set, the pre-deploy backup of prod
\* and the pruning after it are over before the first create or update call:
\* no call is sent while they run, no backup directory changes once a call is
\* sent, and without a returned backup no call is sent at all.
C24_BackupFirst == [][BackupFirstStep]_vars

\* C24 witness: a deploy with backupBeforeDeploy backed prod up, pruned at least
\* one older backup and then sent a call.
C24_Witness ==
    /\ pc = "idle" /\ op.cmd = "deploy" /\ config.backupBeforeDeploy
    /\ retv.kind = "manifest" /\ retv.workflowCount > 0
    /\ deleted # {}
    /\ Len(calls) > 0

\* The steps of a full-deploy in the order the command runs them
PipelineOrder(skipBackup) ==
    IF skipBackup THEN <<"validate", "deploy", "verify", "summary">>
    ELSE <<"backup", "validate", "deploy", "verify", "summary">>

IsPrefix(a, b) == Len(a) <= Len(b) /\ SubSeq(b, 1, Len(a)) = a

\* A requested workflow has no '<name>-dev' entity on the remote side
SomeDevMissing == ~AllDevFound(remoteAtStart, input.deployWorkflows)

\* C25: full-deploy runs backup (unless skipped), validate, deploy, verify,
\* summary in that order and stops at the first step that raises; when a
\* requested dev workflow is missing, no production entity is created or
\* updated.
C25_PipelineOrder ==
    tool = "full-deploy" =>
        /\ IsPrefix(output.steps, PipelineOrder(input.skipBackup))
        /\ output.raisedAt # "none" =>
               /\ output.at = "ended"
               /\ output.steps[Len(output.steps)] = output.raisedAt
        /\ (output.at = "ended" /\ output.raisedAt = "none") =>
               output.steps = PipelineOrder(input.skipBackup)
        /\ SomeDevMissing =>
               /\ output.calls = <<>> /\ remote = remoteAtStart
               /\ "deploy" \notin SeqToSet(output.steps)

\* C25 witness: a full-deploy took its backup, found a requested dev workflow
\* missing and ended there, the remote collection untouched.
C25_Witness ==
    /\ tool = "full-deploy" /\ output.at = "ended"
    /\ SomeDevMissing
    /\ output.steps = <<"backup", "validate">> /\ output.raisedAt = "validate"
    /\ Len(remote) > 0 /\ remote = remoteAtStart

\* The import run for the i-th workflow created or updated its prod entity
ActuallyDeployed(i) == Successes(output.imports[i]) > 0

\* C26: deployWorkflows reports 'success' for a workflow only if its import
\* created or updated the production entity; a workflow whose import matched
\* no file or recorded 'failed' is reported failed, and deployWorkflows raises.
C26_SuccessMeansDeployed ==
    tool = "full-deploy" =>
        /\ \A i \in 1..Len(output.deploymentResults) :
               output.deploymentResults[i].status = "success" <=> ActuallyDeployed(i)
        /\ "deploy" \in SeqToSet(output.steps) /\ output.raisedAt # "deploy" =>
               \A i \in 1..Len(output.deploymentResults) : ActuallyDeployed(i)

\* The environment whose entities the running command selects by base name
SelectedEnvironment == IF op.cmd = "deploy" THEN "dev" ELSE op.env

\* The outcome records of the batch that belong to one base name
RecordsOf(baseName) ==
    {i \in 1..Len(results) : getBaseNameFromWorkflowName(resolved[i].name) = baseName}

\* C27: an export or a deploy given explicit base names selects only the
\* entities named exactly base name + suffix of the environment; an entity
\* without a suffix is never selected as a dev entity, and each requested base
\* name gets at most one outcome record.
C27_ExactSuffixOnly ==
    (op.cmd \in {"export", "deploy"} /\ op.specific # <<>>) =>
        /\ \A i \in 1..Len(resolved) :
               \E b \in 1..Len(op.specific) :
                   resolved[i].name = op.specific[b] \o getSuffix(SelectedEnvironment)
        /\ (\A i, j \in 1..Len(remoteAtStart) :
                remoteAtStart[i].name = remoteAtStart[j].name => i = j) =>
               \A b \in 1..Len(op.specific) :
                   Cardinality(RecordsOf(op.specific[b])) <= 1

NewBackupSurvivesStep ==
    (pc = "backup_cleanup" /\ defaultKeepCount(config) >= 1) =>
        op.backupName \in DOMAIN backups'

\* C28: the pruning that createBackup triggers never deletes the backup that
\* createBackup has just written, whatever the number of backups to keep (at
\* least 1) and whatever the custom name, one equal to the name of an existing
\* backup directory included.
C28_NewBackupSurvives == [][NewBackupSurvivesStep]_vars

\* The suffix of the environment the running import or deploy writes to
TargetSuffix == IF op.cmd = "deploy" THEN getSuffix("prod") ELSE getSuffix(op.env)

\* C29: an import into dev or prod, and a deploy, create or update only
\* entities whose name ends with the suffix of the target environment: every
\* call carries such a name, every update goes to an entity that had such a
\* name, and every other entity stays as it was.
C29_OnlyTargetEnvironment ==
    op.cmd \in {"import", "deploy"} =>
        /\ \A i \in 1..Len(calls) :
               /\ EndsWith(calls[i].payload.name, TargetSuffix)
               /\ calls[i].kind = "update" =>
                      \A k \in 1..Len(remoteAtStart) :
                          remoteAtStart[k].id = calls[i].id =>
                              EndsWith(remoteAtStart[k].name, TargetSuffix)
        /\ \A k \in 1..Len(remoteAtStart) :
               ~EndsWith(remoteAtStart[k].name, TargetSuffix) =>
                   \E j \in 1..Len(remote) : remote[j] = remoteAtStart[k]

\* C29 witness: an import into prod of a file holding a dev name has ended; it
\* created or updated an entity of that base name with the prod suffix and left
\* the dev entity as it was.
C29_Witness ==
    /\ pc = "idle" /\ op.cmd = "import" /\ op.env = "prod"
    /\ \E i \in 1..Len(calls) :
           /\ calls[i].ok
           /\ calls[i].payload.name = BaseXy \o SfxProd
           /\ wfdir[resolved[i]].name = BaseXy \o SfxDev
    /\ HasName(remoteAtStart, BaseXy \o SfxDev)
    /\ HasName(remote, BaseXy \o SfxDev)
    /\ HasName(remote, BaseXy \o SfxProd)

\* The version is the greatest of the released ones, component by component
IsNumericMax(version, released) ==
    /\ version \in released
    /\ \A v \in released : compareVersions(version, v) >= 0

\* C30: findLatestReleaseTag and getCurrentReleasedVersion select the same
\* release as the latest of a workflow, the component-wise numeric maximum of
\* its released versions (of v1.9.0 and v1.10.0, v1.10.0).
C30_SameLatestRelease ==
    (tool = "latestRelease" /\ input.released # {}) =>
        /\ output.latestTag =
               sanitizeForGit(input.workflowName) \o <<"-">> \o output.currentVersion
        /\ IsNumericMax(output.currentVersion, input.released)

====
